---- MODULE Spec2Model ----
(***************************************************************************)
(* portdoc: PDF ingestion pipeline (services/ingestion.py driven by the    *)
(* endpoints of routers/documents.py) and streamed answer generation       *)
(* (services/rag.py driven by routers/threads.py), modelled as state       *)
(* machines over the committed database rows.                              *)
(***************************************************************************)
EXTENDS Integers, Sequences, FiniteSets, TLC

(***************************************************************************)
(* Bounds of the model.                                                    *)
(***************************************************************************)
MaxRuns == 2        \* background ingestion tasks that can be queued
MaxPages == 1       \* pages of an uploaded PDF
MaxChunks == 2      \* chunks the chunker returns for one PDF

Docs == {"docA", "docB"}    \* document ids that uuid4() can hand out
Runs == 1..MaxRuns          \* background tasks, numbered in queueing order

NoPages == -1       \* Document.pages is NULL
NoDoc == "none"     \* a task slot that has not been queued yet

MaxTurns == 2       \* chat turns on the thread
MaxTokens == 2      \* content tokens the backend streams in one turn
MaxK == 2           \* the largest k a retrieval asks for
MaxLen == 6         \* characters of a text handed to the normalizer
MaxDocPages == 2    \* pages of a document handed to the chunker
MaxUnits == 4       \* sentence pieces of such a document, all pages together
MaxPrior == 12      \* stored messages that precede the current user message
MaxContext == 2     \* chunks handed to the prompt builder
MaxWords == 5       \* words of the reply to a title request
MaxTexts == 6       \* texts handed to embed_batch
MaxBatch == 3       \* the largest batch_size
MaxScanLen == 4     \* characters of a text over the full alphabet of the scan
MaxRawLen == 3      \* characters of a text handed to sanitize_text
MaxRequests == 2    \* concurrent stream_response requests on one thread
MaxStored == 3      \* messages the thread holds before the requests

chunk_size == 1000      \* IngestionService.chunk_size
chunk_overlap == 200    \* IngestionService.chunk_overlap
history_limit == 10     \* history_to_include[-10:] in generate_response

VARIABLES
    issued,     \* document ids already generated by uuid4()
    documents,  \* committed Document rows: id -> [status, pages]
    chunks,     \* committed Chunk rows
    run,        \* the background ingestion tasks, one record per task
    accepts,    \* the chat backend: the parameter sets it accepts
    messages,   \* committed Message rows of the thread, in creation order
    chat_runs,  \* committed ChatRun rows of the thread
    turn,       \* the streaming request in progress
    chunk_table, \* the Chunk rows a retrieval query runs against
    retrieval,  \* the last call of retrieve_chunks and what it returned
    page_text,  \* a text handed to the math normalizer
    converted,  \* what the normalizer returned, pass after pass
    pdf_pages,  \* the page texts handed to the chunker
    chunks_data, \* what create_chunks returned, call after call
    message_history,  \* the stored messages handed to generate_response
    context_chunks,  \* the chunks handed to generate_response
    llm_messages, \* the message lists sent to the chat backend
    title_backend,  \* the backend a title request meets: which parameter set it takes, what it replies
    title_result, \* what generate_thread_title returned
    embed_texts,  \* the texts handed to embed_batch
    batch_size,  \* its batch_size argument
    embed, \* the call of embed_batch in progress
    rag_converted, \* what RAGService.convert_math_to_latex returned for page_text
    raw_text,  \* a page text as the PDF library returns it, as code points
    sanitized, \* what sanitize_text returned for it
    thread_messages,  \* the committed Message rows of a thread that takes concurrent requests
    req  \* the stream_response requests on that thread, one record each

ingestVars == <<issued, documents, chunks, run>>

genVars == <<accepts, messages, chat_runs, turn>>

retrieveVars == <<chunk_table, retrieval>>

normVars == <<page_text, converted>>

chunkVars == <<pdf_pages, chunks_data>>

promptVars == <<message_history, context_chunks, llm_messages>>

titleVars == <<title_backend, title_result>>

embedVars == <<embed_texts, batch_size, embed>>

ragNormVars == <<rag_converted>>

sanitizeVars == <<raw_text, sanitized>>

threadVars == <<thread_messages, req>>

funVars == <<retrieveVars, normVars, chunkVars, promptVars, titleVars, embedVars, ragNormVars, sanitizeVars, threadVars>>

vars == <<issued, documents, chunks, run, accepts, messages, chat_runs, turn,
          chunk_table, retrieval, page_text, converted, pdf_pages,
          chunks_data,
          message_history, context_chunks, llm_messages,
          title_backend, title_result,
          embed_texts, batch_size, embed,
          rag_converted,
          raw_text, sanitized,
          thread_messages, req>>

(***************************************************************************)
(* db/models.py                                                            *)
(***************************************************************************)
\* DocumentStatus; "none" stands for "no such row".
DocumentStatus == {"UPLOADED", "PROCESSING", "READY", "ERROR"}

\* A Document row that is not (or no longer) stored.
NoRow == [status |-> "none", pages |-> NoPages]

\* A new Document row as the upload endpoints create it.
Document == [status |-> "UPLOADED", pages |-> NoPages]

\* A Chunk row; (run, chunk_index) stands for its uuid4 primary key.
Chunk(document_id, r, chunk_index, embedding) ==
    [document_id |-> document_id, run |-> r,
     chunk_index |-> chunk_index, embedding |-> embedding]

Exists(d) == documents[d].status # "none"

\* uuid4(): an id not issued before; ids are issued in the order of Docs.
NextId == IF issued = {} THEN "docA"
          ELSE IF issued = {"docA"} THEN "docB" ELSE NoDoc

\* BackgroundTasks.add_task: the next task slot, in queueing order.
NextTask(r) == run[r].pc = "idle" /\ \A q \in Runs : q < r => run[q].pc # "idle"

(***************************************************************************)
(* services/ingestion.py: data of one ingestion task                       *)
(***************************************************************************)
IdleRun == [pc |-> "idle", doc |-> NoDoc, total_pages |-> NoPages,
            nchunks |-> 0, nemb |-> 0, result |-> "none",
            failed |-> "none", errWriteFails |-> 0, wrote |-> "none"]

\* Where a failure is caught: a failure of the first commit by the outer
\* handler only ("start"), a failure of any later stage by the handler of
\* that stage and, if that handler fails in turn, by the outer one ("stage").
Caught(stage) ==
    IF stage \in {"none", "notfound", "start"} THEN stage ELSE "stage"

\* The task has returned: its locals are gone; what is kept is the result,
\* where the failure was caught, the number of ERROR writes that failed,
\* the last status the task committed and the number of rows it stored.
Returned(t, result, stage, k, wrote) ==
    [IdleRun EXCEPT !.pc = "done", !.doc = t.doc, !.result = result,
                    !.failed = Caught(stage), !.errWriteFails = k,
                    !.wrote = wrote,
                    !.nchunks = IF result = "true" THEN t.nchunks ELSE 0]

\* The status update without its where clause: every stored row is set.
UpdateStatus_AllRows(docs, d, s) ==
    [e \in DOMAIN docs |->
        IF docs[e].status # "none" THEN [docs[e] EXCEPT !.status = s]
        ELSE docs[e]]

\* update(Document).where(Document.id == d).values(status=s) + commit
UpdateStatus(docs, d, s) ==
    IF docs[d].status # "none" THEN [docs EXCEPT ![d].status = s] ELSE docs

\* update(Document).where(Document.id == d).values(status=s, pages=p) + commit
UpdateStatusPages(docs, d, s, p) ==
    IF docs[d].status # "none"
    THEN [docs EXCEPT ![d] = [status |-> s, pages |-> p]]
    ELSE docs

\* create_chunks numbers the chunks 0, 1, 2, ... (global_chunk_index)
ChunkIndexes(n) == 0..(n - 1)

\* ChunkRecords with "embedding=embedding" left out of Chunk(...).
ChunkRecords_NoEmbedding(d, r, n) ==
    {Chunk(d, r, i, "null") : i \in ChunkIndexes(n)}

\* The Chunk records built from zip(chunks_data, embeddings).
ChunkRecords(d, r, n) ==
    {Chunk(d, r, i, "vector") : i \in ChunkIndexes(n)}

\* Number of times the ERROR update can be attempted after a failure at
\* the given stage: the stage's own handler and then the outer handler;
\* a failure of the first commit reaches the outer handler directly.
Handlers(stage) == IF stage = "start" THEN 1 ELSE 2

(***************************************************************************)
(* routers/documents.py                                                    *)
(***************************************************************************)
\* upload_document / upload_arxiv_document: store the row with status
\* UPLOADED, commit, and queue the automatic ingestion task.
upload_document(d, r) ==
    /\ d = NextId
    /\ NextTask(r)
    /\ issued' = issued \cup {d}
    /\ documents' = [documents EXCEPT ![d] = Document]
    /\ run' = [run EXCEPT ![r].pc = "queued", ![r].doc = d]
    /\ UNCHANGED <<chunks, genVars, funVars>>

\* POST /documents/{id}/ingest: 404 unless the row exists, else queue a task.
ingest_document(d, r) ==
    /\ Exists(d)
    /\ NextTask(r)
    /\ run' = [run EXCEPT ![r].pc = "queued", ![r].doc = d]
    /\ UNCHANGED <<issued, documents, chunks, genVars, funVars>>

\* DELETE /documents/{id}: delete the row; the delete cascades to chunks.
delete_document(d) ==
    /\ Exists(d)
    /\ documents' = [documents EXCEPT ![d] = NoRow]
    /\ chunks' = {c \in chunks : c.document_id # d}
    /\ UNCHANGED <<issued, run, genVars, funVars>>

(***************************************************************************)
(* services/ingestion.py: _ingest_document_internal, one action per await  *)
(***************************************************************************)
\* StageError with a handler that logs and returns False but leaves the
\* status as it is.
StageError_NoWrite(r, stage, k) ==
    /\ run' = [run EXCEPT ![r] = Returned(run[r], "false", stage, k,
                                          run[r].wrote)]
    /\ UNCHANGED <<issued, documents, chunks, genVars, funVars>>

\* StageError with handlers that record the page count along with ERROR.
StageError_RecordsPages(r, stage, k) ==
    LET d == run[r].doc
        written == k < Handlers(stage)
    IN /\ documents' = IF written
                       THEN UpdateStatusPages(documents, d, "ERROR",
                                              run[r].total_pages)
                       ELSE documents
       /\ run' = [run EXCEPT ![r] = Returned(run[r], "false", stage, k,
                                 IF written THEN "ERROR" ELSE run[r].wrote)]
       /\ UNCHANGED <<issued, chunks, genVars, funVars>>

\* A stage failed: its handler writes ERROR and returns False.  k is the
\* number of ERROR writes that fail in turn (each failure falls through to
\* the next handler; the outer handler swallows its own failure).
StageError(r, stage, k) ==
    LET d == run[r].doc
        written == k < Handlers(stage)
    IN /\ documents' = IF written THEN UpdateStatus(documents, d, "ERROR")
                       ELSE documents
       /\ run' = [run EXCEPT ![r] = Returned(run[r], "false", stage, k,
                                 IF written THEN "ERROR" ELSE run[r].wrote)]
       /\ UNCHANGED <<issued, chunks, genVars, funVars>>

\* select(Document): the row is absent, return False without any write.
IngestNotFound(r) ==
    /\ run[r].pc = "queued"
    /\ ~Exists(run[r].doc)
    /\ run' = [run EXCEPT ![r] = Returned(run[r], "false", "notfound", 0,
                                          "none")]
    /\ UNCHANGED <<issued, documents, chunks, genVars, funVars>>

\* select(Document), update status=PROCESSING, commit.
IngestStart(r) ==
    /\ run[r].pc = "queued"
    /\ Exists(run[r].doc)
    /\ \/ /\ documents' = UpdateStatus(documents, run[r].doc, "PROCESSING")
          /\ run' = [run EXCEPT ![r].pc = "download",
                                ![r].wrote = "PROCESSING"]
          /\ UNCHANGED <<issued, chunks, genVars, funVars>>
       \/ \E k \in 0..Handlers("start") : StageError(r, "start", k)

\* storage.download_file
IngestDownload(r) ==
    /\ run[r].pc = "download"
    /\ \/ /\ run' = [run EXCEPT ![r].pc = "extract"]
          /\ UNCHANGED <<issued, documents, chunks, genVars, funVars>>
       \/ \E k \in 0..Handlers("download") : StageError(r, "download", k)

\* extract_text_from_pdf
IngestExtract(r) ==
    /\ run[r].pc = "extract"
    /\ \/ \E p \in 0..MaxPages :
            /\ run' = [run EXCEPT ![r].pc = "chunk", ![r].total_pages = p]
            /\ UNCHANGED <<issued, documents, chunks, genVars, funVars>>
       \/ \E k \in 0..Handlers("extract") : StageError(r, "extract", k)

\* create_chunks, then the "if not chunks_data" branch: ERROR together
\* with the page count; if that commit fails the outer handler writes
\* ERROR alone.
IngestChunk(r) ==
    /\ run[r].pc = "chunk"
    /\ \/ \E n \in 1..MaxChunks :
            /\ run[r].total_pages > 0
            /\ run' = [run EXCEPT ![r].pc = "embed", ![r].nchunks = n]
            /\ UNCHANGED <<issued, documents, chunks, genVars, funVars>>
       \/ \E k \in 0..Handlers("zero") :
            /\ documents' =
                 IF k = 0
                 THEN UpdateStatusPages(documents, run[r].doc, "ERROR",
                                        run[r].total_pages)
                 ELSE IF k < Handlers("zero")
                 THEN UpdateStatus(documents, run[r].doc, "ERROR")
                 ELSE documents
            /\ run' = [run EXCEPT ![r] =
                          Returned(run[r], "false", "zero", k,
                                   IF k < Handlers("zero") THEN "ERROR"
                                   ELSE run[r].wrote)]
            /\ UNCHANGED <<issued, chunks, genVars, funVars>>
       \/ \E k \in 0..Handlers("chunk") : StageError(r, "chunk", k)

\* IngestEmbed without the count check: whatever number of vectors came
\* back, the task goes on to store the rows zip() pairs up.
IngestEmbed_NoCountCheck(r) ==
    /\ run[r].pc = "embed"
    /\ \/ /\ \E m \in 0..(MaxChunks + 1) :
                run' = [run EXCEPT ![r].pc = "persist", ![r].nemb = m]
          /\ UNCHANGED <<issued, documents, chunks, genVars, funVars>>
       \/ \E k \in 0..Handlers("embed") : StageError(r, "embed", k)

\* embedding.embed_batch, then the len(embeddings) != len(chunks_data) check
IngestEmbed(r) ==
    /\ run[r].pc = "embed"
    /\ \/ /\ run' = [run EXCEPT ![r].pc = "persist",
                                ![r].nemb = run[r].nchunks]
          /\ UNCHANGED <<issued, documents, chunks, genVars, funVars>>
       \/ /\ \E m \in 0..(MaxChunks + 1) : m # run[r].nchunks
          /\ \E k \in 0..Handlers("mismatch") : StageError(r, "mismatch", k)
       \/ \E k \in 0..Handlers("embed") : StageError(r, "embed", k)

\* IngestPersist with the chunk rows committed on their own before the
\* READY update: a failure of the second commit leaves the rows behind.
IngestPersist_TwoCommits(r) ==
    /\ run[r].pc = "persist"
    /\ Exists(run[r].doc)
    /\ chunks' = chunks \cup ChunkRecords(run[r].doc, r, run[r].nchunks)
    /\ \/ /\ documents' = UpdateStatusPages(documents, run[r].doc, "READY",
                                            run[r].total_pages)
          /\ run' = [run EXCEPT ![r] = Returned(run[r], "true", "none", 0,
                                                "READY")]
       \/ /\ documents' = UpdateStatus(documents, run[r].doc, "ERROR")
          /\ run' = [run EXCEPT ![r] = Returned(run[r], "false", "persist",
                                                0, "ERROR")]
    /\ UNCHANGED <<issued, genVars, funVars>>

\* A persist step that commits after every row: a failure on the way leaves
\* the rows committed so far.
IngestPersist_CommitPerRow(r) ==
    /\ run[r].pc = "persist"
    /\ \/ /\ Exists(run[r].doc)
          /\ \E m \in 0..run[r].nchunks :
                /\ chunks' = chunks \cup ChunkRecords(run[r].doc, r, m)
                /\ IF m = run[r].nchunks
                   THEN /\ documents' =
                              UpdateStatusPages(documents, run[r].doc,
                                                "READY", run[r].total_pages)
                        /\ run' = [run EXCEPT ![r] =
                                      Returned(run[r], "true", "none", 0,
                                               "READY")]
                   ELSE /\ documents' =
                              UpdateStatus(documents, run[r].doc, "ERROR")
                        /\ run' = [run EXCEPT ![r] =
                                      Returned(run[r], "false", "persist", 0,
                                               "ERROR")]
          /\ UNCHANGED <<issued, genVars, funVars>>
       \/ \E k \in 0..Handlers("persist") : StageError(r, "persist", k)

\* add_all(chunk_records), update status=READY pages=total_pages, commit;
\* on failure rollback, ERROR, commit.  The insert fails when the
\* Document row has been deleted (foreign key).
IngestPersist(r) ==
    /\ run[r].pc = "persist"
    /\ \/ /\ Exists(run[r].doc)
          /\ chunks' = chunks \cup
                         ChunkRecords(run[r].doc, r, run[r].nchunks)
          /\ documents' = UpdateStatusPages(documents, run[r].doc, "READY",
                                            run[r].total_pages)
          /\ run' = [run EXCEPT ![r] = Returned(run[r], "true", "none", 0,
                                                "READY")]
          /\ UNCHANGED <<issued, genVars, funVars>>
       \/ \E k \in 0..Handlers("persist") : StageError(r, "persist", k)

(***************************************************************************)
(* services/rag.py: the math normalizer.  A text is a sequence of          *)
(* one-character strings.                                                  *)
(***************************************************************************)
RECURSIVE FindEscaped(_, _, _)
\* The first position j >= i at which a backslash is followed by c, else 0.
FindEscaped(s, i, c) ==
    IF i + 1 > Len(s) THEN 0
    ELSE IF s[i] = "\\" /\ s[i + 1] = c THEN i
    ELSE FindEscaped(s, i + 1, c)

RECURSIVE SubDelimiters(_, _, _, _)
\* re.sub of the non-greedy pattern \o(.*?)\c by d \1 d, left to right.
SubDelimiters(s, o, c, d) ==
    LET a == FindEscaped(s, 1, o)
        b == IF a = 0 THEN 0 ELSE FindEscaped(s, a + 2, c)
    IN IF b = 0 THEN s
       ELSE SubSeq(s, 1, a - 1) \o d \o SubSeq(s, a + 2, b - 1) \o d
              \o SubDelimiters(SubSeq(s, b + 2, Len(s)), o, c, d)

RECURSIVE NextDollar(_, _)
\* The first position j >= i holding "$", else 0.
NextDollar(s, i) ==
    IF i > Len(s) THEN 0
    ELSE IF s[i] = "$" THEN i
    ELSE NextDollar(s, i + 1)

RECURSIVE MatchParen(_, _, _)
\* The position of the ")" that brings the depth back to 0, else 0.
MatchParen(s, j, depth) ==
    IF j > Len(s) THEN 0
    ELSE IF s[j] = "(" THEN MatchParen(s, j + 1, depth + 1)
    ELSE IF s[j] = ")"
         THEN IF depth = 1 THEN j ELSE MatchParen(s, j + 1, depth - 1)
    ELSE MatchParen(s, j + 1, depth)

\* A test for math content that only knows the backslash.
LooksLikeMath_BackslashOnly(content) ==
    \E k \in 1..Len(content) : content[k] = "\\"

\* any(char in content for char in ["\\", "^", "_", "{", "}"])
LooksLikeMath(content) ==
    \E k \in 1..Len(content) : content[k] \in {"\\", "^", "_", "{", "}"}

RECURSIVE find_and_replace_paren_math_NoDollarSkip(_)
\* The scan without the branch that copies $...$ spans untouched.
find_and_replace_paren_math_NoDollarSkip(s) ==
    IF s = <<>> THEN <<>>
    ELSE IF s[1] = "("
    THEN LET j == MatchParen(s, 2, 1)
         IN IF j # 0 /\ LooksLikeMath(SubSeq(s, 2, j - 1))
            THEN <<"$">> \o SubSeq(s, 2, j - 1) \o <<"$">>
                   \o find_and_replace_paren_math_NoDollarSkip(
                          SubSeq(s, j + 1, Len(s)))
            ELSE <<"(">> \o find_and_replace_paren_math_NoDollarSkip(Tail(s))
    ELSE <<s[1]>> \o find_and_replace_paren_math_NoDollarSkip(Tail(s))

RECURSIVE find_and_replace_paren_math(_)
find_and_replace_paren_math(s) ==
    IF s = <<>> THEN <<>>
    ELSE IF s[1] = "$"
    THEN LET j == NextDollar(s, 2)
         IN IF j = 0 THEN s
            ELSE SubSeq(s, 1, j)
                   \o find_and_replace_paren_math(SubSeq(s, j + 1, Len(s)))
    ELSE IF s[1] = "("
    THEN LET j == MatchParen(s, 2, 1)
         IN IF j # 0 /\ LooksLikeMath(SubSeq(s, 2, j - 1))
            THEN <<"$">> \o SubSeq(s, 2, j - 1) \o <<"$">>
                   \o find_and_replace_paren_math(SubSeq(s, j + 1, Len(s)))
            ELSE <<"(">> \o find_and_replace_paren_math(Tail(s))
    ELSE <<s[1]>> \o find_and_replace_paren_math(Tail(s))

\* RAGService.convert_math_to_latex
convert_math_to_latex(text) ==
    find_and_replace_paren_math(
        SubDelimiters(SubDelimiters(text, "[", "]", <<"$", "$">>),
                      "(", ")", <<"$">>))

(***************************************************************************)
(* services/ingestion.py: the math normalizer applied to extracted text    *)
(***************************************************************************)
RECURSIVE ingestion_find_and_replace_paren_math(_)
ingestion_find_and_replace_paren_math(s) ==
    IF s = <<>> THEN <<>>
    ELSE IF s[1] = "$"
    THEN LET j == NextDollar(s, 2)
         IN IF j = 0 THEN s
            ELSE SubSeq(s, 1, j)
                   \o ingestion_find_and_replace_paren_math(
                          SubSeq(s, j + 1, Len(s)))
    ELSE IF s[1] # "("
    THEN <<s[1]>> \o ingestion_find_and_replace_paren_math(Tail(s))
    ELSE LET j == MatchParen(s, 2, 1)
         IN IF j = 0
            THEN <<"(">> \o ingestion_find_and_replace_paren_math(Tail(s))
            ELSE IF ~ LooksLikeMath(SubSeq(s, 2, j - 1))
            THEN <<"(">> \o ingestion_find_and_replace_paren_math(Tail(s))
            ELSE <<"$">> \o SubSeq(s, 2, j - 1) \o <<"$">>
                   \o ingestion_find_and_replace_paren_math(
                          SubSeq(s, j + 1, Len(s)))

\* IngestionService.convert_math_to_latex
ingestion_convert_math_to_latex(s) ==
    ingestion_find_and_replace_paren_math(
        SubDelimiters(SubDelimiters(s, "[", "]", <<"$", "$">>),
                      "(", ")", <<"$">>))

\* The characters of the texts, and the texts.
Alphabet == {"(", ")", "$", "\\", "_", "a"}
Texts == UNION {[1..n -> Alphabet] : n \in 0..MaxLen}

\* Short texts over every character the scan tells apart.
ScanAlphabet == {"(", ")", "$", "\\", "^", "_", "{", "}", "a"}
ScanTexts == UNION {[1..n -> ScanAlphabet] : n \in 0..MaxScanLen}

\* One pass of the normalizer over the text, or over what the pass before
\* returned.
ConvertPass ==
    /\ Len(converted) < 2
    /\ converted' =
          Append(converted,
                 ingestion_convert_math_to_latex(
                     IF converted = <<>> THEN page_text
                     ELSE converted[Len(converted)]))
    /\ UNCHANGED <<page_text, ingestVars, genVars, retrieveVars, chunkVars, promptVars, titleVars, embedVars, ragNormVars, sanitizeVars, threadVars>>

(***************************************************************************)
(* services/ingestion.py: create_chunks                                    *)
(*                                                                         *)
(* A text is a sequence of spans, each with the number of tokens the       *)
(* tokenizer gives it.  A page is the sequence of the token counts of the  *)
(* pieces page_text.replace("\n", " ").split(". ") returns; a piece of 0    *)
(* tokens is empty or whitespace.                                          *)
(***************************************************************************)
\* One piece of a page, identified by its page and its position.
Sentence(page_num, pos, tokens) ==
    [page |-> page_num, pos |-> pos, tokens |-> tokens]

\* The "." that join and the trailing period put into a chunk text: one
\* token of its own.
Period == Sentence(0, 0, 1)

RECURSIVE count_tokens(_)
\* len(self.encoding.encode(text))
count_tokens(t) ==
    IF t = <<>> THEN 0 ELSE Head(t).tokens + count_tokens(Tail(t))

RECURSIVE Join(_)
\* ". ".join(current_chunk) + "."
Join(current_chunk) ==
    IF current_chunk = <<>> THEN <<>>
    ELSE IF Len(current_chunk) = 1 THEN <<current_chunk[1], Period>>
    ELSE <<current_chunk[1], Period>> \o Join(Tail(current_chunk))

\* The token counts a piece can have.
Sizes == {0, 100, 600, 1100}

\* not page_text.strip(): a page with two pieces holds a "." at least.
IsBlank(page) == Len(page) = 1 /\ page[1] = 0

\* The pieces of a page.
Sentences(page_num, page) ==
    [i \in 1..Len(page) |-> Sentence(page_num, i, page[i])]

\* The dict appended for a closed chunk.
ChunkData(page_num, global_chunk_index, current_chunk, current_tokens) ==
    [page |-> page_num, chunk_index |-> global_chunk_index,
     text |-> Join(current_chunk), token_count |-> current_tokens]

RECURSIVE OverlapWalk_KeepAll(_, _, _, _)
\* A walk that keeps every sentence of the closed chunk.
OverlapWalk_KeepAll(current_chunk, i, overlap_sentences, overlap_tokens) ==
    IF i = 0
    THEN [sentences |-> overlap_sentences, tokens |-> overlap_tokens]
    ELSE OverlapWalk_KeepAll(current_chunk, i - 1,
                             <<current_chunk[i]>> \o overlap_sentences,
                             overlap_tokens
                                + count_tokens(<<current_chunk[i]>>))

RECURSIVE OverlapWalk_SkipOversized(_, _, _, _)
\* A walk that passes over a sentence that does not fit and goes on to the
\* ones before it.
OverlapWalk_SkipOversized(current_chunk, i, overlap_sentences, overlap_tokens) ==
    IF i = 0
    THEN [sentences |-> overlap_sentences, tokens |-> overlap_tokens]
    ELSE LET s_tokens == count_tokens(<<current_chunk[i]>>)
         IN IF overlap_tokens + s_tokens <= chunk_overlap
            THEN OverlapWalk_SkipOversized(
                     current_chunk, i - 1,
                     <<current_chunk[i]>> \o overlap_sentences,
                     overlap_tokens + s_tokens)
            ELSE OverlapWalk_SkipOversized(current_chunk, i - 1,
                                           overlap_sentences, overlap_tokens)

RECURSIVE OverlapWalk(_, _, _, _)
\* for s in reversed(current_chunk): keep s while the budget allows, break
\* at the first sentence that does not fit.
OverlapWalk(current_chunk, i, overlap_sentences, overlap_tokens) ==
    IF i = 0
    THEN [sentences |-> overlap_sentences, tokens |-> overlap_tokens]
    ELSE LET s_tokens == count_tokens(<<current_chunk[i]>>)
         IN IF overlap_tokens + s_tokens <= chunk_overlap
            THEN OverlapWalk(current_chunk, i - 1,
                             <<current_chunk[i]>> \o overlap_sentences,
                             overlap_tokens + s_tokens)
            ELSE [sentences |-> overlap_sentences, tokens |-> overlap_tokens]

RECURSIVE SentenceLoop(_, _, _, _)
\* for sentence in sentences, from the i-th piece on.
SentenceLoop(page_num, sentences, i, st) ==
    IF i > Len(sentences) THEN st
    ELSE IF sentences[i].tokens = 0
    THEN SentenceLoop(page_num, sentences, i + 1, st)
    ELSE LET sentence == sentences[i]
             sentence_tokens == count_tokens(<<sentence>>)
             overlap == OverlapWalk(st.current_chunk, Len(st.current_chunk),
                                    <<>>, 0)
             closed ==
                 IF /\ st.current_tokens + sentence_tokens > chunk_size
                    /\ st.current_chunk # <<>>
                 THEN [chunks |->
                          Append(st.chunks,
                                 ChunkData(page_num, st.global_chunk_index,
                                           st.current_chunk,
                                           st.current_tokens)),
                       global_chunk_index |-> st.global_chunk_index + 1,
                       current_chunk |-> overlap.sentences,
                       current_tokens |-> overlap.tokens]
                 ELSE st
         IN SentenceLoop(page_num, sentences, i + 1,
                [closed EXCEPT !.current_chunk = Append(@, sentence),
                               !.current_tokens = @ + sentence_tokens])

\* The page loop from page_num on, with one operator for the body of a
\* page: the remaining chunk of a page is saved at its end.
PageBody(page_num, page, st0) ==
    LET st1 == SentenceLoop(page_num, Sentences(page_num, page), 1, st0)
    IN IF st1.current_chunk # <<>>
       THEN [st1 EXCEPT !.chunks =
                            Append(@, ChunkData(page_num,
                                                st1.global_chunk_index,
                                                st1.current_chunk,
                                                st1.current_tokens)),
                        !.global_chunk_index = @ + 1]
       ELSE st1

RECURSIVE PageLoop_RestartIndex(_, _, _)
\* A page loop that numbers the chunks of every page from 0.
PageLoop_RestartIndex(pages, page_num, st) ==
    IF page_num > Len(pages) THEN st.chunks
    ELSE IF IsBlank(pages[page_num])
    THEN PageLoop_RestartIndex(pages, page_num + 1, st)
    ELSE PageLoop_RestartIndex(pages, page_num + 1,
             PageBody(page_num, pages[page_num],
                      [st EXCEPT !.current_chunk = <<>>,
                                 !.current_tokens = 0,
                                 !.global_chunk_index = 0]))

RECURSIVE PageLoop_CarryOverlap(_, _, _)
\* A page loop that seeds the first chunk of a page from the last chunk of
\* the page before, and saves a chunk for a blank page.
PageLoop_CarryOverlap(pages, page_num, st) ==
    IF page_num > Len(pages) THEN st.chunks
    ELSE LET overlap == OverlapWalk(st.current_chunk, Len(st.current_chunk),
                                    <<>>, 0)
         IN PageLoop_CarryOverlap(pages, page_num + 1,
                PageBody(page_num, pages[page_num],
                         [st EXCEPT !.current_chunk = overlap.sentences,
                                    !.current_tokens = overlap.tokens]))

RECURSIVE PageLoop(_, _, _)
\* for page_num, page_text in enumerate(pages, start=1)
PageLoop(pages, page_num, st) ==
    IF page_num > Len(pages) THEN st.chunks
    ELSE IF IsBlank(pages[page_num])
    THEN PageLoop(pages, page_num + 1, st)
    ELSE PageLoop(pages, page_num + 1,
             PageBody(page_num, pages[page_num],
                      [st EXCEPT !.current_chunk = <<>>,
                                 !.current_tokens = 0]))

\* IngestionService.create_chunks
create_chunks(pages) ==
    PageLoop(pages, 1, [chunks |-> <<>>, global_chunk_index |-> 0,
                        current_chunk |-> <<>>, current_tokens |-> 0])

\* The pages of at most n pieces, and the documents of np pages with at
\* most n pieces together.
PagesUpTo(n) == UNION {[1..m -> Sizes] : m \in 1..n}

RECURSIVE PdfsOf(_, _)
PdfsOf(np, n) ==
    IF np = 0 THEN {<<>>}
    ELSE UNION { {<<pg>> \o rest : rest \in PdfsOf(np - 1, n - Len(pg))} :
                 pg \in PagesUpTo(n - (np - 1)) }

Pdfs == UNION {PdfsOf(np, MaxUnits) : np \in 0..MaxDocPages}

\* One call of create_chunks on the pages.
CreateChunks ==
    /\ Len(chunks_data) < 2
    /\ chunks_data' = Append(chunks_data, create_chunks(pdf_pages))
    /\ UNCHANGED <<pdf_pages, ingestVars, genVars, retrieveVars, normVars, promptVars, titleVars, embedVars, ragNormVars, sanitizeVars, threadVars>>

(***************************************************************************)
(* services/rag.py and routers/threads.py: one streamed chat turn          *)
(***************************************************************************)
\* param_combinations, in the order in which they are tried.
param_combinations ==
    << {"max_completion_tokens", "temperature"}, {"max_completion_tokens"},
       {"max_tokens", "temperature"}, {"max_tokens"} >>

Combos == {param_combinations[i] : i \in 1..Len(param_combinations)}

\* The for loop over param_combinations: the index of the first combination
\* the backend accepts (break), 0 when every attempt raised.
FirstAccepted(acc) ==
    IF \E i \in 1..Len(param_combinations) : param_combinations[i] \in acc
    THEN CHOOSE i \in 1..Len(param_combinations) :
           /\ param_combinations[i] \in acc
           /\ \A k \in 1..(i - 1) : param_combinations[k] \notin acc
    ELSE 0

\* The content of the i-th chunk of the backend stream (a parenthesised
\* formula split over two chunks, repeated), the user's question and the
\* results retrieve_chunks can hand to the turn.
StreamChunk(i) == IF i % 2 = 1 THEN <<"(", "x">> ELSE <<"_", ")">>
Query == <<"q">>
Retrieved ==
    { <<>>,
      << [chunk_id |-> "c3", page |-> 2], [chunk_id |-> "c1", page |-> 1],
         [chunk_id |-> "c4", page |-> 2] >> }

\* The text generate_response yields from its outer except handler.
ErrorMarker == <<"[Error: Failed to generate response]">>

RECURSIVE Concat(_)
\* "".join(list of texts)
Concat(ts) == IF ts = <<>> THEN <<>> ELSE Head(ts) \o Concat(Tail(ts))

RECURSIVE Sorted(_)
\* sorted(set(...)) of page numbers
Sorted(S) ==
    IF S = {} THEN <<>>
    ELSE LET m == CHOOSE x \in S : \A y \in S : x <= y
         IN <<m>> \o Sorted(S \ {m})

PagesOf(cs) == Sorted({cs[i].page : i \in 1..Len(cs)})

\* Server-sent events.
Event(type, content, pages) ==
    [type |-> type, content |-> content, pages |-> pages]

\* Message rows; turn records the request that stored the row.
Message(role, content, chunk_ids, pages, n) ==
    [role |-> role, content |-> content, chunk_ids |-> chunk_ids,
     pages |-> pages, turn |-> n]

IdleTurn == [n |-> 0, pc |-> "idle", chunks |-> <<>>, yields |-> <<>>,
             events |-> <<>>, failure |-> "none", gen |-> "none",
             requests |-> <<>>, stream_requests |-> <<>>]

\* full_response: the tokens yielded so far, without the error marker.
FullResponse(t) ==
    Concat(SelectSeq(t.yields, LAMBDA y : y # ErrorMarker))

\* stream_response, first step: the USER message is added and committed.
stream_response ==
    /\ turn.pc \in {"idle", "closed", "http500", "disconnected"}
    /\ turn.n < MaxTurns
    /\ messages' = Append(messages,
                          Message("USER", Query, <<>>, <<>>, turn.n + 1))
    /\ turn' = [IdleTurn EXCEPT !.n = turn.n + 1, !.pc = "committed"]
    /\ UNCHANGED <<accepts, chat_runs, ingestVars, funVars>>

\* stream_response from the title to the retrieval: a failing title
\* generation is logged, the history is selected, retrieve_chunks returns
\* its (possibly empty) result.  No Message row is written.
StreamRetrieve(cs) ==
    /\ turn.pc = "committed"
    /\ turn' = [turn EXCEPT !.pc = "saved", !.chunks = cs]
    /\ UNCHANGED <<accepts, messages, chat_runs, ingestVars, funVars>>

\* TestParams without the pop: max_tokens stays in the request next to
\* max_completion_tokens.
TestParams_KeepMaxTokens(params) == {"max_tokens"} \cup params

\* The negotiated parameter names of the pre-flight request built for one
\* combination: base_params holds max_tokens, which is popped when the
\* combination brings max_completion_tokens.
TestParams(params) ==
    (IF "max_completion_tokens" \in params THEN {} ELSE {"max_tokens"})
        \cup params

RECURSIVE ValidateLoop_NoBreak(_, _)
\* A loop that keeps sending after an accepted request.
ValidateLoop_NoBreak(acc, i) ==
    IF i > Len(param_combinations) THEN <<>>
    ELSE <<TestParams(param_combinations[i])>>
           \o ValidateLoop_NoBreak(acc, i + 1)

RECURSIVE ValidateLoop(_, _)
\* The requests validate_llm_connection sends from the i-th combination
\* on: the loop breaks after the first request the backend accepts.
ValidateLoop(acc, i) ==
    IF i > Len(param_combinations) THEN <<>>
    ELSE LET test_params == TestParams(param_combinations[i])
         IN IF test_params \in acc THEN <<test_params>>
            ELSE <<test_params>> \o ValidateLoop(acc, i + 1)

\* success: some request of the loop was accepted.
Success(requests, acc) ==
    \E i \in 1..Len(requests) : requests[i] \in acc

\* A caller that answers a failed validation by taking back the USER
\* message it saved.
validate_llm_connection_DropsMessage ==
    /\ turn.pc = "saved"
    /\ LET requests == ValidateLoop(accepts.validate, 1)
       IN IF Success(requests, accepts.validate)
          THEN /\ turn' = [turn EXCEPT !.requests = requests,
                                       !.pc = "validated"]
               /\ UNCHANGED messages
          ELSE /\ turn' = [turn EXCEPT !.requests = requests,
                                       !.pc = "http500"]
               /\ messages' = SubSeq(messages, 1, Len(messages) - 1)
    /\ UNCHANGED <<accepts, chat_runs, ingestVars, funVars>>

\* validate_llm_connection, and the HTTP 500 of its caller when it raises.
validate_llm_connection ==
    /\ turn.pc = "saved"
    /\ LET requests == ValidateLoop(accepts.validate, 1)
       IN turn' = [turn EXCEPT !.requests = requests,
                               !.pc = IF Success(requests, accepts.validate)
                                      THEN "validated" ELSE "http500"]
    /\ UNCHANGED <<accepts, messages, chat_runs, ingestVars, funVars>>

\* event_generator: the start event.
EventStart ==
    /\ turn.pc = "validated"
    /\ turn' = [turn EXCEPT !.pc = "started",
                            !.events = <<Event("start", <<>>, <<>>)>>]
    /\ UNCHANGED <<accepts, messages, chat_runs, ingestVars, funVars>>

RECURSIVE NegotiateLoop(_, _)
\* The requests generate_response sends from the i-th combination on:
\* base_params carries no token limit, and the loop breaks after the first
\* request that returns a stream.
NegotiateLoop(acc, i) ==
    IF i > Len(param_combinations) THEN <<>>
    ELSE IF param_combinations[i] \in acc THEN <<param_combinations[i]>>
    ELSE <<param_combinations[i]>> \o NegotiateLoop(acc, i + 1)

\* A generate_response whose handler lets the exception escape: the
\* consumer's own handler then sends the error event.
GenError_Raises(kind) ==
    /\ turn' = [turn EXCEPT !.pc = "closed", !.gen = "raised",
                            !.failure = kind,
                            !.stream_requests =
                                IF kind = "negotiation"
                                THEN NegotiateLoop(accepts.stream, 1) ELSE @,
                            !.events = Append(@, Event("error", ErrorMarker,
                                                       <<>>))]
    /\ UNCHANGED <<accepts, messages, chat_runs, ingestVars, funVars>>

\* A consumer that reports the failure with an error event and still goes
\* on to the done event.
GenError_ErrorThenDone(kind) ==
    /\ turn' = [turn EXCEPT !.pc = "exhausted", !.gen = "returned",
                            !.failure = kind,
                            !.stream_requests =
                                IF kind = "negotiation"
                                THEN NegotiateLoop(accepts.stream, 1) ELSE @,
                            !.events = Append(@, Event("error", ErrorMarker,
                                                       <<>>))]
    /\ UNCHANGED <<accepts, messages, chat_runs, ingestVars, funVars>>

\* generate_response caught an Exception in its outer handler: rollback,
\* yield the error marker, end.  event_generator forwards what is yielded
\* as a token event.
GenError(kind) ==
    /\ turn' = [turn EXCEPT !.pc = "exhausted", !.gen = "returned",
                            !.failure = kind,
                            !.stream_requests =
                                IF kind = "negotiation"
                                THEN NegotiateLoop(accepts.stream, 1) ELSE @,
                            !.yields = Append(@, ErrorMarker),
                            !.events = Append(@, Event("token", ErrorMarker,
                                                       <<>>))]
    /\ UNCHANGED <<accepts, messages, chat_runs, ingestVars, funVars>>

\* generate_response: the negotiation loop over param_combinations.
GenNegotiate ==
    /\ turn.pc = "started"
    /\ IF FirstAccepted(accepts.stream) # 0
       THEN /\ turn' = [turn EXCEPT !.pc = "streaming", !.gen = "running",
                                    !.stream_requests =
                                        NegotiateLoop(accepts.stream, 1)]
            /\ UNCHANGED <<accepts, messages, chat_runs, ingestVars, funVars>>
       ELSE GenError("negotiation")

\* async for chunk in stream: a content token is yielded and forwarded.
GenToken ==
    /\ turn.pc = "streaming"
    /\ Len(turn.yields) < MaxTokens
    /\ LET tok == StreamChunk(Len(turn.yields) + 1)
       IN turn' = [turn EXCEPT !.yields = Append(@, tok),
                               !.events = Append(@, Event("token", tok,
                                                          <<>>))]
    /\ UNCHANGED <<accepts, messages, chat_runs, ingestVars, funVars>>

\* async for chunk in stream: the backend stream raises.
GenStreamError ==
    /\ turn.pc = "streaming"
    /\ GenError("stream")

\* async for chunk in stream: the stream is exhausted.
GenStreamEnd ==
    /\ turn.pc = "streaming"
    /\ turn' = [turn EXCEPT !.pc = "ended"]
    /\ UNCHANGED <<accepts, messages, chat_runs, ingestVars, funVars>>

\* A persistence step that commits the ASSISTANT message before it adds the
\* ChatRun: a failure of the second commit leaves the message stored.
GenPersist_MessageFirst ==
    /\ turn.pc = "ended"
    /\ messages' =
           Append(messages,
                  Message("ASSISTANT",
                          convert_math_to_latex(FullResponse(turn)),
                          [i \in 1..Len(turn.chunks) |->
                              turn.chunks[i].chunk_id],
                          PagesOf(turn.chunks), turn.n))
    /\ \/ /\ chat_runs' = Append(chat_runs, [turn |-> turn.n, cost_usd |-> 0])
          /\ turn' = [turn EXCEPT !.pc = "exhausted", !.gen = "returned"]
       \/ /\ chat_runs' = chat_runs
          /\ turn' = [turn EXCEPT !.pc = "exhausted", !.gen = "returned",
                                  !.failure = "persist",
                                  !.yields = Append(@, ErrorMarker),
                                  !.events = Append(@, Event("token",
                                                             ErrorMarker,
                                                             <<>>))]
    /\ UNCHANGED <<accepts, ingestVars, funVars>>

\* A persistence step that stores the response as it was streamed.
GenPersist_RawContent ==
    /\ turn.pc = "ended"
    /\ \/ /\ messages' =
               Append(messages,
                      Message("ASSISTANT", FullResponse(turn),
                              [i \in 1..Len(turn.chunks) |->
                                  turn.chunks[i].chunk_id],
                              PagesOf(turn.chunks), turn.n))
          /\ chat_runs' = Append(chat_runs, [turn |-> turn.n, cost_usd |-> 0])
          /\ turn' = [turn EXCEPT !.pc = "exhausted", !.gen = "returned"]
          /\ UNCHANGED <<accepts, ingestVars, funVars>>
       \/ GenError("persist")

\* The ASSISTANT message and the ChatRun, added and committed together;
\* a failing commit is rolled back by the outer handler.
GenPersist ==
    /\ turn.pc = "ended"
    /\ \/ /\ messages' =
               Append(messages,
                      Message("ASSISTANT",
                              convert_math_to_latex(FullResponse(turn)),
                              [i \in 1..Len(turn.chunks) |->
                                  turn.chunks[i].chunk_id],
                              PagesOf(turn.chunks), turn.n))
          /\ chat_runs' = Append(chat_runs, [turn |-> turn.n, cost_usd |-> 0])
          /\ turn' = [turn EXCEPT !.pc = "exhausted", !.gen = "returned"]
          /\ UNCHANGED <<accepts, ingestVars, funVars>>
       \/ GenError("persist")

\* event_generator: the generator is exhausted, the done event is sent.
EventDone ==
    /\ turn.pc = "exhausted"
    /\ turn' = [turn EXCEPT !.pc = "closed",
                            !.events = Append(@, Event("done", <<>>,
                                                       PagesOf(turn.chunks)))]
    /\ UNCHANGED <<accepts, messages, chat_runs, ingestVars, funVars>>

\* The client goes away while the response is streamed: the task is
\* cancelled, and the CancelledError / GeneratorExit raised inside
\* generate_response is a BaseException that no "except Exception" catches.
ClientDisconnect ==
    /\ turn.pc \in {"started", "streaming", "ended", "exhausted"}
    /\ turn' = [turn EXCEPT !.pc = "disconnected",
                            !.gen = IF turn.gen = "returned" THEN "returned"
                                    ELSE "cancelled"]
    /\ UNCHANGED <<accepts, messages, chat_runs, ingestVars, funVars>>

(***************************************************************************)
(* services/rag.py: retrieve_chunks                                        *)
(***************************************************************************)
\* A Chunk row as the query sees it: distance is the cosine distance of its
\* embedding to the query embedding (meaningless when embedding is null).
ChunkRow(id, document_id, page, embedding, distance, text) ==
    [id |-> id, document_id |-> document_id, page |-> page,
     embedding |-> embedding, distance |-> distance, text |-> text]

\* The rows a chunk table is drawn from: two rows at the same distance, a
\* row without embedding, a row of another document, and a nearest row on
\* page 1.
Candidates ==
    { ChunkRow("c1", "docA", 1, "vector", 0, <<"a">>),
      ChunkRow("c2", "docA", 2, "vector", 1, <<"(", "_", ")">>),
      ChunkRow("c3", "docA", 3, "vector", 1, <<"a">>),
      ChunkRow("c4", "docA", 2, "null", 0, <<"a">>),
      ChunkRow("c5", "docB", 2, "vector", 0, <<"a">>),
      ChunkRow("c6", "docA", 4, "vector", 2, <<"a">>),
      ChunkRow("c7", "docA", 2, "vector", 2, <<"a">>) }

\* page_filter: None (the empty tuple here) or (min_page, max_page).
NoFilter == <<>>
PageFilters == {NoFilter, <<2, 3>>, <<1, 1>>}

\* The WHERE clause: document, non-null embedding, and the page range when
\* a filter is given.
Where(table, document_id, page_filter) ==
    {c \in table :
        /\ c.document_id = document_id
        /\ c.embedding # "null"
        /\ \/ page_filter = NoFilter
           \/ c.page >= page_filter[1] /\ c.page <= page_filter[2]}

RECURSIVE OrderBy(_)
\* ORDER BY distance: every order the database may return, rows at the same
\* distance in any order.
OrderBy(rows) ==
    IF rows = {} THEN {<<>>}
    ELSE UNION { {<<m>> \o t : t \in OrderBy(rows \ {m})} :
                 m \in {x \in rows : \A y \in rows : x.distance <= y.distance} }

\* LIMIT k
Limit(q, k) == SubSeq(q, 1, IF k < Len(q) THEN k ELSE Len(q))

\* A statement that cuts to k rows before it looks at the page range.
QueryResults_LimitFirst(table, document_id, k, page_filter) ==
    { SelectSeq(Limit(q, k),
                LAMBDA c : \/ page_filter = NoFilter
                           \/ c.page >= page_filter[1]
                              /\ c.page <= page_filter[2]) :
        q \in OrderBy(Where(table, document_id, NoFilter)) }

\* The statement built by retrieve_chunks: the page range is added to the
\* WHERE clause of the statement that already carries ORDER BY and LIMIT.
QueryResults(table, document_id, k, page_filter) ==
    { Limit(q, k) : q \in OrderBy(Where(table, document_id, page_filter)) }

\* The dict returned for a row.
ChunkDict(row) ==
    [chunk_id |-> row.id, page |-> row.page,
     text |-> convert_math_to_latex(row.text),
     similarity |-> 1 - row.distance]

IdleRetrieval ==
    [pc |-> "idle", document_id |-> NoDoc, k |-> 0, page_filter |-> NoFilter,
     failure |-> "none", rollback_failed |-> FALSE, result |-> <<>>]

\* An error handler that lets the exception out.
RetrieveError_Raises(document_id, k, page_filter, failure, rollback_failed) ==
    retrieval' = [IdleRetrieval EXCEPT !.pc = "raised",
                      !.document_id = document_id, !.k = k,
                      !.page_filter = page_filter, !.failure = failure,
                      !.rollback_failed = rollback_failed]

\* The except branch of retrieve_chunks: log, rollback (its own failure is
\* logged), return [].
RetrieveError(document_id, k, page_filter, failure, rollback_failed) ==
    retrieval' = [IdleRetrieval EXCEPT !.pc = "returned",
                      !.document_id = document_id, !.k = k,
                      !.page_filter = page_filter, !.failure = failure,
                      !.rollback_failed = rollback_failed]

retrieve_chunks(document_id, k, page_filter) ==
    /\ \/ \E rows \in QueryResults(chunk_table, document_id, k, page_filter) :
            retrieval' = [IdleRetrieval EXCEPT !.pc = "returned",
                              !.document_id = document_id, !.k = k,
                              !.page_filter = page_filter,
                              !.result = [i \in 1..Len(rows) |->
                                             ChunkDict(rows[i])]]
       \/ \E failure \in {"embedding", "database"},
             rollback_failed \in BOOLEAN :
            RetrieveError(document_id, k, page_filter, failure,
                          rollback_failed)
    /\ UNCHANGED <<chunk_table, ingestVars, genVars, normVars, chunkVars, promptVars, titleVars, embedVars, ragNormVars, sanitizeVars, threadVars>>

(***************************************************************************)
(* services/prompts.py and the prompt assembly of generate_response        *)
(* A prompt text is a sequence of pieces; "\n" and "\n\n" are pieces.      *)
(***************************************************************************)
\* The value of a MessageRole member is already lower case; str.lower()
\* maps the upper-case spelling to it and leaves the rest alone.
MessageRole == {"user", "assistant", "system"}

lower(s) ==
    CASE s = "USER" -> "user"
      [] s = "ASSISTANT" -> "assistant"
      [] s = "SYSTEM" -> "system"
      [] OTHER -> s

\* str(int), digit by digit.
Digit == <<"0", "1", "2", "3", "4", "5", "6", "7", "8", "9">>

RECURSIVE str(_)
str(n) ==
    IF n < 10 THEN <<Digit[n + 1]>>
    ELSE str(n \div 10) \o <<Digit[(n % 10) + 1]>>

\* f"[Page {chunk['page']}]\n{chunk['text']}"
PageBlock(chunk) ==
    <<"[Page ">> \o str(chunk.page) \o <<"]", "\n">> \o chunk.text

\* "\n\n".join(blocks)
RECURSIVE JoinBlank(_)
JoinBlank(blocks) ==
    IF blocks = <<>> THEN <<>>
    ELSE IF Len(blocks) = 1 THEN blocks[1]
    ELSE blocks[1] \o <<"\n\n">> \o JoinBlank(Tail(blocks))

Context(cs) == JoinBlank([i \in 1..Len(cs) |-> PageBlock(cs[i])])

\* Defined in prompts.py; generate_response does not call it.
build_rag_system_prompt(cs) ==
    IF cs = <<>>
    THEN <<"You are a helpful AI assistant for a PDF document reader.",
           "\n\n",
           "Unfortunately, I don't have access to the document content right now. This might be because:",
           "\n", "- The document is still being processed",
           "\n", "- The document embeddings haven't been generated yet",
           "\n", "- There was an error retrieving the document content",
           "\n\n",
           "Please ask the user to wait a moment for the document to finish processing, or inform them that they may need to re-upload the document.">>
    ELSE <<"You are a helpful AI assistant that answers questions about a PDF document.",
           "\n\n",
           "Your task is to answer questions based ONLY on the provided context from the document.",
           "\n\n", "Context from the document:", "\n">>
         \o Context(cs)
         \o <<"\n\n", "Guidelines:">>

build_rag_user_prompt_with_context(user_message, cs) ==
    IF cs = <<>> THEN user_message
    ELSE <<"Here is the relevant context from a PDF document:", "\n\n">>
         \o Context(cs)
         \o <<"\n\n",
              "Based ONLY on the above context from the document, please answer the following question. Always cite page numbers when referencing information.",
              "\n\n", "Question: ">>
         \o user_message

\* The literal of generate_response.
system_prompt ==
    <<"You are a helpful AI assistant that answers questions about PDF documents.",
      " Always cite page numbers when referencing information from the document.",
      " Answer based ONLY on the provided context.">>

\* message_history[:-1]
history_to_include_KeepLast(history) == history

history_to_include(history) ==
    IF Len(history) > 0 THEN SubSeq(history, 1, Len(history) - 1) ELSE <<>>

\* s[-n:]
LastN(s, n) == IF Len(s) <= n THEN s ELSE SubSeq(s, Len(s) - n + 1, Len(s))

\* The list generate_response hands to chat.completions.create.
BuildMessages(user_message, cs, history) ==
    LET recent == LastN(history_to_include(history), history_limit)
    IN  <<[role |-> "system", content |-> system_prompt]>>
        \o [i \in 1..Len(recent) |->
                [role |-> lower(recent[i].role),
                 content |-> recent[i].content]]
        \o <<[role |-> "user",
              content |-> build_rag_user_prompt_with_context(user_message,
                                                             cs)]>>

\* The rows stream_response reads back, ordered by created_at: n earlier
\* messages, then the user message saved for this turn.
RoleCycle == <<"user", "assistant", "system">>

Repeat(piece, n) == [i \in 1..n |-> piece]

StoredMessage(role, content) == [role |-> role, content |-> content]

History(n, offset, question) ==
    [i \in 1..n |-> StoredMessage(RoleCycle[((i + offset) % 3) + 1],
                                  Repeat("m", i))]
    \o <<StoredMessage("user", question)>>

Questions == {Query, <<"q", "?">>}

Histories ==
    {History(n, offset, q) : n \in 0..MaxPrior, offset \in 0..2,
                             q \in Questions}

\* The dictionaries retrieve_chunks returns, reduced to the keys the prompt
\* reads.
ContextChunk == [page : {1, 12}, text : {<<"a">>, <<"b", "\n", "c">>}]

ContextLists == UNION {[1..n -> ContextChunk] : n \in 0..MaxContext}

\* generate_response up to the request: builds the list and sends it.
SendPrompt ==
    /\ llm_messages = <<>>
    /\ llm_messages' =
           <<BuildMessages(message_history[Len(message_history)].content,
                           context_chunks, message_history)>>
    /\ UNCHANGED <<message_history, context_chunks, ingestVars, genVars,
                   retrieveVars, normVars, chunkVars, titleVars, embedVars, ragNormVars, sanitizeVars, threadVars>>

(***************************************************************************)
(* services/rag.py: generate_thread_title                                  *)
(* A reply is a sequence of characters.                                    *)
(***************************************************************************)
Whitespace == {" ", "\n"}

\* The argument of title.strip("\"'.,!?")
TitleStrip == {"\"", "'", ".", ",", "!", "?"}

NewChat == <<"N", "e", "w", " ", "C", "h", "a", "t">>

\* message.content is None, or choices is empty: reading the reply raises.
NoContent == <<"None">>

RECURSIVE lstrip(_, _)
lstrip(s, cs) ==
    IF s # <<>> /\ s[1] \in cs THEN lstrip(Tail(s), cs) ELSE s

RECURSIVE rstrip(_, _)
rstrip(s, cs) ==
    IF s # <<>> /\ s[Len(s)] \in cs
    THEN rstrip(SubSeq(s, 1, Len(s) - 1), cs)
    ELSE s

\* str.strip(chars); chars is the white space when no argument is given.
strip(s, cs) == rstrip(lstrip(s, cs), cs)

\* The length of the run of characters outside cs that s starts with.
RECURSIVE WordEnd(_, _)
WordEnd(s, cs) ==
    IF s = <<>> \/ s[1] \in cs THEN 0 ELSE 1 + WordEnd(Tail(s), cs)

\* str.split(): the runs of characters between white space.
RECURSIVE split(_)
split(s) ==
    LET t == lstrip(s, Whitespace)
        n == WordEnd(t, Whitespace)
    IN  IF t = <<>> THEN <<>>
        ELSE <<SubSeq(t, 1, n)>> \o split(SubSeq(t, n + 1, Len(t)))

\* " ".join(words)
RECURSIVE JoinSpace(_)
JoinSpace(words) ==
    IF words = <<>> THEN <<>>
    ELSE IF Len(words) = 1 THEN words[1]
    ELSE words[1] \o <<" ">> \o JoinSpace(Tail(words))

\* words[:n]
FirstN(s, n) == IF Len(s) <= n THEN s ELSE SubSeq(s, 1, n)

\* The post-processing without the final strip of quotes and punctuation.
CleanTitle_NoStrip(content) ==
    JoinSpace(FirstN(split(strip(content, Whitespace)), 4))

\* The post-processing of the reply, up to the value that is tested.
CleanTitle(content) ==
    strip(JoinSpace(FirstN(split(strip(content, Whitespace)), 4)),
          TitleStrip)

\* The four parameter sets of the title request, in the order tried.
title_combinations ==
    << {"max_completion_tokens", "temperature"}, {"max_completion_tokens"},
       {"max_tokens", "temperature"}, {"max_tokens"} >>

IdleBackend == [first_accepted |-> 0, content |-> <<>>]

\* The replies a backend may give: up to MaxWords words separated by single
\* blanks, with or without white space around them; or nothing readable.
ReplyWords == { <<"a">>, <<"\"">>, <<"b", ".">>, <<"'", "c", "!">> }

RECURSIVE WordLists(_)
WordLists(n) ==
    IF n = 0 THEN {<<>>}
    ELSE {<<>>} \cup {<<w>> \o l : w \in ReplyWords, l \in WordLists(n - 1)}

Replies ==
    {lead \o JoinSpace(l) \o trail :
        l \in WordLists(MaxWords), lead \in {<<>>, <<"\n">>},
        trail \in {<<>>, <<" ">>}}
    \cup {NoContent}

\* The backend takes parameter set first_accepted (0: none of the four).
TitleBackends ==
    [first_accepted : 0..Len(title_combinations), content : Replies]

generate_thread_title ==
    /\ title_result = <<>>
    /\ LET b == title_backend
       IN  title_result' =
             IF b.first_accepted = 0
             THEN \* response is None
                  <<[title |-> NewChat, requests |-> Len(title_combinations),
                     raised |-> FALSE]>>
             ELSE IF b.content = NoContent
             THEN \* caught by the outer handler
                  <<[title |-> NewChat, requests |-> b.first_accepted,
                     raised |-> FALSE]>>
             ELSE <<[title |-> IF CleanTitle(b.content) # <<>>
                               THEN CleanTitle(b.content) ELSE NewChat,
                     requests |-> b.first_accepted, raised |-> FALSE]>>
    /\ UNCHANGED <<title_backend, ingestVars, genVars, retrieveVars,
                   normVars, chunkVars, promptVars, embedVars, ragNormVars, sanitizeVars, threadVars>>

(***************************************************************************)
(* services/embeddings.py: embed_batch                                     *)
(***************************************************************************)
\* The vector the backend computes for a text; response.data holds one item
\* per input, in the order of the input.
Vector(t) == [embedding_of |-> t]

\* pc: "idle" no call, "loop" inside the for loop, "returned", "raised".
\* result is <<>> until the call returns, then <<the list returned>>.
IdleEmbed ==
    [pc |-> "idle", i |-> 0, requests |-> <<>>, embeddings |-> <<>>,
     result |-> <<>>]

\* texts[i : i + batch_size]
Batch(texts, i, b) ==
    SubSeq(texts, i + 1, IF i + b <= Len(texts) THEN i + b ELSE Len(texts))

\* embeddings = []
EmbedCall ==
    /\ embed.pc = "idle"
    /\ embed' = [embed EXCEPT !.pc = "loop"]
    /\ UNCHANGED <<embed_texts, batch_size, ingestVars, genVars,
                   retrieveVars, normVars, chunkVars, promptVars, titleVars, ragNormVars, sanitizeVars, threadVars>>

\* One pass of the loop whose request succeeds.
EmbedBatchOk ==
    /\ embed.pc = "loop"
    /\ embed.i < Len(embed_texts)
    /\ LET batch == Batch(embed_texts, embed.i, batch_size)
       IN  embed' = [embed EXCEPT
                       !.requests = Append(@, batch),
                       !.embeddings =
                           @ \o [j \in 1..Len(batch) |-> Vector(batch[j])],
                       !.i = @ + batch_size]
    /\ UNCHANGED <<embed_texts, batch_size, ingestVars, genVars,
                   retrieveVars, normVars, chunkVars, promptVars, titleVars, ragNormVars, sanitizeVars, threadVars>>

\* A handler that logs and goes on to the next batch.
EmbedBatchFail_Continue ==
    /\ embed.pc = "loop"
    /\ embed.i < Len(embed_texts)
    /\ embed' = [embed EXCEPT
                   !.requests =
                       Append(@, Batch(embed_texts, embed.i, batch_size)),
                   !.i = @ + batch_size]
    /\ UNCHANGED <<embed_texts, batch_size, ingestVars, genVars,
                   retrieveVars, normVars, chunkVars, promptVars, titleVars, ragNormVars, sanitizeVars, threadVars>>

\* One pass of the loop whose request fails: logged and raised again.
EmbedBatchFail ==
    /\ embed.pc = "loop"
    /\ embed.i < Len(embed_texts)
    /\ embed' = [embed EXCEPT
                   !.requests =
                       Append(@, Batch(embed_texts, embed.i, batch_size)),
                   !.pc = "raised"]
    /\ UNCHANGED <<embed_texts, batch_size, ingestVars, genVars,
                   retrieveVars, normVars, chunkVars, promptVars, titleVars, ragNormVars, sanitizeVars, threadVars>>

\* range() is exhausted: return embeddings
EmbedReturn ==
    /\ embed.pc = "loop"
    /\ embed.i >= Len(embed_texts)
    /\ embed' = [embed EXCEPT !.pc = "returned",
                              !.result = <<embed.embeddings>>]
    /\ UNCHANGED <<embed_texts, batch_size, ingestVars, genVars,
                   retrieveVars, normVars, chunkVars, promptVars, titleVars, ragNormVars, sanitizeVars, threadVars>>

(***************************************************************************)
(* services/rag.py: the normalizer of RAGService on its own                *)
(***************************************************************************)
\* RAGService.convert_math_to_latex applied to a text.
RagConvert ==
    /\ rag_converted = <<>>
    /\ rag_converted' = <<convert_math_to_latex(page_text)>>
    /\ UNCHANGED <<page_text, converted, ingestVars, genVars, retrieveVars,
                   chunkVars, promptVars, titleVars, embedVars, sanitizeVars, threadVars>>

(***************************************************************************)
(* services/ingestion.py: sanitize_text.  A character is its code point.   *)
(***************************************************************************)
\* text.replace("\x00", "")
RemoveNul(t) == SelectSeq(t, LAMBDA c : c # 0)

\* char >= " " or char in "\t\n\r"
Kept(c) == c >= 32 \/ c \in {9, 10, 13}

sanitize_text(t) == SelectSeq(RemoveNul(t), Kept)

\* NUL, tab, newline, carriage return, ESC, US, blank, "A", DEL, APC (0x9F)
\* and the no-break space.
CodePoints == {0, 9, 10, 13, 27, 31, 32, 65, 127, 159, 160}

RawTexts == UNION {[1..n -> CodePoints] : n \in 0..MaxRawLen}

\* extract_text_from_pdf: the text of a page is sanitized.
SanitizePage ==
    /\ sanitized = <<>>
    /\ sanitized' = <<sanitize_text(raw_text)>>
    /\ UNCHANGED <<raw_text, ingestVars, genVars, retrieveVars, normVars,
                   chunkVars, promptVars, titleVars, embedVars, ragNormVars, threadVars>>

(***************************************************************************)
(* services/rag.py: what the SELECT of retrieve_chunks can see of the      *)
(* committed rows while ingestion tasks run                                *)
(***************************************************************************)
\* where(Chunk.document_id == document_id, Chunk.embedding.isnot(None)),
\* one statement over the rows committed when it runs.
Visible(d) ==
    {c \in chunks : c.document_id = d /\ c.embedding # "null"}

(***************************************************************************)
(* routers/threads.py: stream_response requests running concurrently on    *)
(* one thread, from the save of the user message to the request sent to    *)
(* the backend.  Title generation, retrieval and the pre-flight validation *)
(* are awaited between the steps and let other requests run.               *)
(***************************************************************************)
Requests == 1..MaxRequests

\* The question of request i; no two requests ask the same.
Question(i) == <<"q">> \o Repeat("?", i)

\* pc: "idle", "saved" (user message committed), "read" (history selected),
\* "sent" (message list handed to the backend).
IdleRequest == [pc |-> "idle", history |-> <<>>, sent |-> <<>>]

\* db.add(user_msg); commit
SaveUserMessage(i) ==
    /\ req[i].pc = "idle"
    /\ thread_messages' =
           Append(thread_messages, StoredMessage("user", Question(i)))
    /\ req' = [req EXCEPT ![i].pc = "saved"]
    /\ UNCHANGED <<ingestVars, genVars, retrieveVars, normVars, chunkVars,
                   promptVars, titleVars, embedVars, ragNormVars,
                   sanitizeVars>>

\* select(Message).where(thread_id).order_by(created_at)
ReadHistory(i) ==
    /\ req[i].pc = "saved"
    /\ req' = [req EXCEPT ![i].pc = "read", ![i].history = thread_messages]
    /\ UNCHANGED <<thread_messages, ingestVars, genVars, retrieveVars,
                   normVars, chunkVars, promptVars, titleVars, embedVars,
                   ragNormVars, sanitizeVars>>

\* generate_response(user_message=query, message_history=...): the list is
\* built and sent.
SendMessages(i) ==
    /\ req[i].pc = "read"
    /\ req' = [req EXCEPT
                 ![i].pc = "sent",
                 ![i].sent = BuildMessages(Question(i), <<>>, req[i].history)]
    /\ UNCHANGED <<thread_messages, ingestVars, genVars, retrieveVars,
                   normVars, chunkVars, promptVars, titleVars, embedVars,
                   ragNormVars, sanitizeVars>>

(***************************************************************************)
(* Specifications                                                          *)
(***************************************************************************)
ThreadInit ==
    /\ thread_messages = <<>>
    /\ req = [i \in Requests |-> IdleRequest]

SanitizeInit ==
    /\ raw_text = <<>>
    /\ sanitized = <<>>

RagNormInit ==
    /\ rag_converted = <<>>

EmbedInit ==
    /\ embed_texts = <<>>
    /\ batch_size = 1
    /\ embed = IdleEmbed

TitleInit ==
    /\ title_backend = IdleBackend
    /\ title_result = <<>>

PromptInit ==
    /\ message_history = <<>>
    /\ context_chunks = <<>>
    /\ llm_messages = <<>>

\* No retrieval in progress, no text handed to the normalizer.
RetrieveInit ==
    /\ chunk_table = {}
    /\ retrieval = IdleRetrieval

NormalizeInit ==
    /\ page_text = <<>>
    /\ converted = <<>>

ChunkInit ==
    /\ pdf_pages = <<>>
    /\ chunks_data = <<>>

IngestInit ==
    /\ issued = {}
    /\ documents = [d \in Docs |-> NoRow]
    /\ chunks = {}
    /\ run = [r \in Runs |-> IdleRun]

GenInit ==
    /\ messages = <<>>
    /\ chat_runs = <<>>
    /\ turn = IdleTurn

\* The ingestion pipeline, with no chat in progress.
Init ==
    /\ IngestInit
    /\ ThreadInit
    /\ SanitizeInit
    /\ RagNormInit
    /\ EmbedInit
    /\ TitleInit
    /\ PromptInit
    /\ GenInit
    /\ accepts = [validate |-> {}, stream |-> {}]
    /\ RetrieveInit
    /\ NormalizeInit
    /\ ChunkInit

Next ==
    \/ \E d \in Docs, r \in Runs : upload_document(d, r)
    \/ \E d \in Docs, r \in Runs : ingest_document(d, r)
    \/ \E d \in Docs : delete_document(d)
    \/ \E r \in Runs : IngestNotFound(r)
    \/ \E r \in Runs : IngestStart(r)
    \/ \E r \in Runs : IngestDownload(r)
    \/ \E r \in Runs : IngestExtract(r)
    \/ \E r \in Runs : IngestChunk(r)
    \/ \E r \in Runs : IngestEmbed(r)
    \/ \E r \in Runs : IngestPersist(r)

Spec == Init /\ [][Next]_vars

\* The backends: each accepts some of the combinations, and either treats
\* a streaming request like the pre-flight request or rejects it.
Backends ==
    {a \in [validate : SUBSET Combos, stream : SUBSET Combos] :
        a.stream \in {a.validate, {}}}

\* Chat turns on one thread, against every backend.
InitGen ==
    /\ IngestInit
    /\ ThreadInit
    /\ SanitizeInit
    /\ RagNormInit
    /\ EmbedInit
    /\ TitleInit
    /\ PromptInit
    /\ GenInit
    /\ accepts \in Backends
    /\ RetrieveInit
    /\ NormalizeInit
    /\ ChunkInit

NextGen ==
    \/ stream_response
    \/ \E cs \in Retrieved : StreamRetrieve(cs)
    \/ validate_llm_connection
    \/ EventStart
    \/ GenNegotiate
    \/ GenToken
    \/ GenStreamError
    \/ GenStreamEnd
    \/ GenPersist
    \/ EventDone
    \/ ClientDisconnect

SpecGen == InitGen /\ [][NextGen]_vars

\* Retrieval calls against every chunk table drawn from Candidates.
InitRetrieve ==
    /\ IngestInit
    /\ ThreadInit
    /\ SanitizeInit
    /\ RagNormInit
    /\ EmbedInit
    /\ TitleInit
    /\ PromptInit
    /\ GenInit
    /\ accepts = [validate |-> {}, stream |-> {}]
    /\ chunk_table \in SUBSET Candidates
    /\ retrieval = IdleRetrieval
    /\ NormalizeInit
    /\ ChunkInit

NextRetrieve ==
    \E document_id \in Docs, k \in 0..MaxK, page_filter \in PageFilters :
        retrieve_chunks(document_id, k, page_filter)

SpecRetrieve == InitRetrieve /\ [][NextRetrieve]_vars

\* The normalizer applied to every text of at most MaxLen characters.
InitNormalize ==
    /\ IngestInit
    /\ ThreadInit
    /\ SanitizeInit
    /\ RagNormInit
    /\ EmbedInit
    /\ TitleInit
    /\ PromptInit
    /\ GenInit
    /\ accepts = [validate |-> {}, stream |-> {}]
    /\ RetrieveInit
    /\ page_text \in Texts
    /\ converted = <<>>
    /\ ChunkInit

NextNormalize == ConvertPass

SpecNormalize == InitNormalize /\ [][NextNormalize]_vars

\* The chunker applied to every document of Pdfs.
InitChunk ==
    /\ IngestInit
    /\ ThreadInit
    /\ SanitizeInit
    /\ RagNormInit
    /\ EmbedInit
    /\ TitleInit
    /\ PromptInit
    /\ GenInit
    /\ accepts = [validate |-> {}, stream |-> {}]
    /\ RetrieveInit
    /\ NormalizeInit
    /\ pdf_pages \in Pdfs
    /\ chunks_data = <<>>

NextChunk == CreateChunks

SpecChunk == InitChunk /\ [][NextChunk]_vars

(***************************************************************************)
(* Properties of the ingestion pipeline                                    *)
(***************************************************************************)
\* The Chunk rows stored for document d, and those written by task r.
ChunksOf(d) == {c \in chunks : c.document_id = d}
RowsOf(r) == {c \in chunks : c.run = r}

\* Task r returns in this step.
Returns(r) == run[r].pc # "done" /\ run'[r].pc = "done"

\* Where a task stands when one of its stages fails: at the download, the
\* extraction, the chunking (an exception or zero chunks), the embedding
\* (an exception or a count mismatch) or the final commit.
StagePcs == {"download", "extract", "chunk", "embed", "persist"}

\* Task r returns in this step because the stage it stood at failed.
StageFails(r) == Returns(r) /\ run[r].pc \in StagePcs /\ run'[r].failed # "none"

\* The ERROR write after the failure got through, in the stage's handler
\* or in the outer one.
ErrorRecorded(t) == t.errWriteFails < Handlers(t.failed)

\* C1: the committed status of a document only ever changes
\* UPLOADED->PROCESSING, PROCESSING->READY or PROCESSING->ERROR, so a
\* READY or ERROR document never becomes PROCESSING or UPLOADED again.
C1_StatusMonotonic ==
    [][\A d \in Docs :
         (Exists(d) /\ documents'[d].status # "none"
            /\ documents'[d].status # documents[d].status)
         => <<documents[d].status, documents'[d].status>> \in
              {<<"UPLOADED", "PROCESSING">>, <<"PROCESSING", "READY">>,
               <<"PROCESSING", "ERROR">>}]_vars

C3_TrueIffReady ==
    [][\A r \in Runs :
         Returns(r) =>
           /\ run'[r].result = "true" =>
                 /\ documents'[run[r].doc].status = "READY"
                 /\ documents'[run[r].doc].pages = run[r].total_pages
                 /\ run[r].total_pages >= 0
                 /\ RowsOf(r)' # {}
                 /\ RowsOf(r)' \ RowsOf(r) = RowsOf(r)'
                 /\ \A c \in RowsOf(r)' : c.embedding # "null"
           /\ (run[r].pc = "persist" /\ run[r].nchunks >= 1
                 /\ run[r].nemb = run[r].nchunks
                 /\ run'[r].failed = "none")
               => run'[r].result = "true"]_vars

\* A run has returned true and its rows are stored.
C3_Witness ==
    \E r \in Runs : run[r].result = "true" /\ RowsOf(r) # {}

C5_ChunkIndexUnique ==
    \A c1, c2 \in chunks :
       (c1.document_id = c2.document_id /\ c1.chunk_index = c2.chunk_index)
       => c1 = c2

\* C6: after two successful runs on one document the stored chunks are
\* the chunk set of a single run, not the accumulation of both.
C6_FullOverwrite ==
    \A r1, r2 \in Runs :
       (r1 # r2 /\ run[r1].doc = run[r2].doc
          /\ run[r1].result = "true" /\ run[r2].result = "true"
          /\ Exists(run[r1].doc))
       => \E r \in {r1, r2} :
            ChunksOf(run[r1].doc) =
              ChunkRecords(run[r].doc, r, run[r].nchunks)

(***************************************************************************)
(* Properties of a streamed chat turn                                      *)
(***************************************************************************)
\* The events of the given type sent so far in the current turn.
EventsOf(type) == SelectSeq(turn.events, LAMBDA e : e.type = type)

\* The ASSISTANT messages stored by the current turn, and its ChatRuns.
AssistantOf(n) ==
    SelectSeq(messages, LAMBDA m : m.role = "ASSISTANT" /\ m.turn = n)
ChatRunsOf(n) == SelectSeq(chat_runs, LAMBDA c : c.turn = n)

\* The first n chunks of the backend stream.
StreamPrefix(n) == [i \in 1..n |-> StreamChunk(i)]

\* C7: when the negotiation inside generate_response exhausts all four
\* parameter combinations, the turn emits no text and no token event.
C7_NoOutputOnExhaustion ==
    turn.failure = "negotiation" =>
        /\ turn.yields = <<>>
        /\ EventsOf("token") = <<>>

\* C8: when the backend stream raises after a successful negotiation,
\* generate_response does not raise: it has yielded the tokens already
\* emitted followed by exactly one error marker, it has ended, and until
\* the turn is over it yields nothing more and no ASSISTANT message (and no
\* ChatRun) of the turn is stored.
C8_StreamErrorMarker ==
    turn.failure = "stream" =>
        /\ turn.gen = "returned"
        /\ Len(turn.yields) >= 1
        /\ turn.yields =
              Append(StreamPrefix(Len(turn.yields) - 1), ErrorMarker)
        /\ \A i \in 1..(Len(turn.yields) - 1) : turn.yields[i] # ErrorMarker
        /\ AssistantOf(turn.n) = <<>>
        /\ ChatRunsOf(turn.n) = <<>>

\* The stream failed after both tokens had been emitted, and the response
\* was closed.
C8_Witness ==
    /\ turn.failure = "stream"
    /\ turn.pc = "closed"
    /\ Len(turn.yields) = MaxTokens + 1
    /\ turn.yields[1] = StreamChunk(1)

\* C9: when generation fails after the start event was sent, the events
\* sent to the client contain no done event, and once the response is
\* closed they end with an error event.
C9_ErrorEventTerminal ==
    turn.failure # "none" =>
        /\ EventsOf("done") = <<>>
        /\ turn.pc = "closed" =>
              turn.events[Len(turn.events)].type = "error"

\* C10: when the client disconnects after at least one token was emitted,
\* an ASSISTANT message holding the text produced so far is stored; when it
\* disconnects before any token, nothing is stored for the turn.
C10_DisconnectPersistsPartial ==
    turn.pc = "disconnected" =>
        IF FullResponse(turn) # <<>>
        THEN /\ Len(AssistantOf(turn.n)) = 1
             /\ AssistantOf(turn.n)[1].content
                   \in {FullResponse(turn),
                        convert_math_to_latex(FullResponse(turn))}
        ELSE /\ AssistantOf(turn.n) = <<>>
             /\ ChatRunsOf(turn.n) = <<>>

\* A sequence of integers is strictly ascending.
Ascending(q) == \A i \in 1..(Len(q) - 1) : q[i] < q[i + 1]

\* generate_response completes without error in this step.
Completes ==
    /\ turn.pc = "ended"
    /\ turn'.pc = "exhausted"
    /\ turn'.failure = "none"

\* Nothing of the turn is stored before the stream has ended, and the turn
\* holds at most one ASSISTANT message and as many ChatRuns.
TurnRecords ==
    /\ turn.pc \in {"committed", "saved", "validated", "started",
                    "streaming", "ended"}
         => AssistantOf(turn.n) = <<>>
    /\ Len(AssistantOf(turn.n)) = Len(ChatRunsOf(turn.n))
    /\ Len(AssistantOf(turn.n)) <= 1

\* C11: when generate_response completes without error, exactly one
\* ASSISTANT message and one ChatRun (cost 0) are added in one step, after
\* the last token: the content is the normalizer applied to the
\* concatenation of the yielded tokens, the metadata holds the chunk ids of
\* the supplied chunks and their distinct pages in ascending order.  While
\* tokens are still being yielded the turn has stored neither, and the turn
\* never holds one without the other.
C11_PersistOnCompletion ==
    [][ /\ Completes =>
            /\ Len(messages') = Len(messages) + 1
            /\ SubSeq(messages', 1, Len(messages)) = messages
            /\ LET m == messages'[Len(messages')]
               IN /\ m.role = "ASSISTANT"
                  /\ m.turn = turn.n
                  /\ m.content = convert_math_to_latex(Concat(turn.yields))
                  /\ Len(m.chunk_ids) = Len(turn.chunks)
                  /\ \A i \in 1..Len(turn.chunks) :
                        m.chunk_ids[i] = turn.chunks[i].chunk_id
                  /\ Ascending(m.pages)
                  /\ {m.pages[i] : i \in 1..Len(m.pages)} =
                        {turn.chunks[i].page : i \in 1..Len(turn.chunks)}
            /\ chat_runs' =
                  Append(chat_runs, [turn |-> turn.n, cost_usd |-> 0])
            /\ turn'.yields = turn.yields
        /\ TurnRecords'
      ]_vars

\* A turn with three retrieved chunks on pages 2, 1, 2 streamed "(x" and
\* "_)" and stored "$x_$" with pages 1, 2.
C11_Witness ==
    /\ turn.pc = "closed"
    /\ turn.failure = "none"
    /\ Len(turn.chunks) = 3
    /\ turn.yields = << <<"(", "x">>, <<"_", ")">> >>
    /\ Len(AssistantOf(turn.n)) = 1
    /\ AssistantOf(turn.n)[1].content = <<"$", "x", "_", "$">>
    /\ AssistantOf(turn.n)[1].pages = <<1, 2>>
    /\ AssistantOf(turn.n)[1].chunk_ids = <<"c3", "c1", "c4">>
    /\ Len(ChatRunsOf(turn.n)) = 1

\* C12: for every set of combinations the backend accepts, the pre-flight
\* check sends its requests in the order (max_completion_tokens +
\* temperature, max_completion_tokens, max_tokens + temperature, max_tokens),
\* sends nothing after the first accepted request, succeeds iff the backend
\* accepts at least one combination (a backend accepting only {max_tokens}
\* succeeds on the fourth request), and never sends max_tokens together with
\* max_completion_tokens.
C12_ValidateOrder ==
    turn.pc \notin {"idle", "committed", "saved"} =>
        LET rq == turn.requests
            n == Len(rq)
            order == << {"max_completion_tokens", "temperature"},
                        {"max_completion_tokens"},
                        {"max_tokens", "temperature"},
                        {"max_tokens"} >>
        IN /\ n \in 1..4
           /\ \A i \in 1..n : rq[i] = order[i]
           /\ \A i \in 1..(n - 1) : rq[i] \notin accepts.validate
           /\ n < 4 => rq[n] \in accepts.validate
           /\ (turn.pc # "http500") <=> (accepts.validate # {})
           /\ \A i \in 1..n :
                 ~ ({"max_tokens", "max_completion_tokens"} \subseteq rq[i])
           /\ accepts.validate = {{"max_tokens"}} =>
                 n = 4 /\ turn.pc # "http500"

\* The backend accepts only {max_tokens}: the fourth request succeeded.
C12_Witness ==
    /\ accepts.validate = {{"max_tokens"}}
    /\ Len(turn.requests) = 4
    /\ turn.pc = "validated"

(***************************************************************************)
(* Properties of retrieve_chunks                                           *)
(***************************************************************************)
\* The rows of the table that are eligible for the last call: same
\* document, embedding not null, page inside the filter when one is given.
Eligible ==
    {c \in chunk_table :
        /\ c.document_id = retrieval.document_id
        /\ c.embedding # "null"
        /\ retrieval.page_filter # NoFilter =>
              /\ retrieval.page_filter[1] <= c.page
              /\ c.page <= retrieval.page_filter[2]}

\* C13: a retrieval that does not fail returns min(k, number of eligible
\* rows) distinct eligible chunks, each with similarity 1 - distance, in
\* descending order of similarity, and no eligible chunk left out is more
\* similar than a returned one; the page filter is applied before the limit.
C13_RetrieveTopK ==
    (retrieval.pc = "returned" /\ retrieval.failure = "none") =>
        LET r == retrieval.result
            n == Cardinality(Eligible)
        IN /\ Len(r) = IF retrieval.k < n THEN retrieval.k ELSE n
           /\ \A i \in 1..Len(r) :
                 \E c \in Eligible :
                    /\ r[i].chunk_id = c.id
                    /\ r[i].page = c.page
                    /\ r[i].similarity = 1 - c.distance
           /\ \A i, j \in 1..Len(r) :
                 /\ i # j => r[i].chunk_id # r[j].chunk_id
                 /\ i < j => r[i].similarity >= r[j].similarity
           /\ \A c \in Eligible :
                 (\A i \in 1..Len(r) : r[i].chunk_id # c.id) =>
                    \A i \in 1..Len(r) : 1 - c.distance <= r[i].similarity

\* The nearest row lies on page 1, outside the filter (2, 3): with k = 1 the
\* call returns the nearest row inside the filter.
C13_Witness ==
    /\ retrieval.pc = "returned"
    /\ retrieval.failure = "none"
    /\ retrieval.page_filter = <<2, 3>>
    /\ retrieval.k = 1
    /\ \E c \in chunk_table : c.id = "c1"
    /\ \E c \in chunk_table : c.id = "c7"
    /\ Len(retrieval.result) = 1
    /\ retrieval.result[1].chunk_id = "c2"

\* C14: when the query embedding or the database query fails, with or
\* without a failing rollback, retrieve_chunks returns the empty list and
\* does not raise.
C14_RetrieveSwallowsErrors ==
    retrieval.failure # "none" =>
        /\ retrieval.pc = "returned"
        /\ retrieval.result = <<>>

\* The database query failed on a table with eligible rows, and so did the
\* rollback.
C14_Witness ==
    /\ retrieval.pc = "returned"
    /\ retrieval.failure = "database"
    /\ retrieval.rollback_failed
    /\ retrieval.k > 0
    /\ Eligible # {}
    /\ retrieval.result = <<>>

(***************************************************************************)
(* Properties of the math normalizer                                       *)
(***************************************************************************)
\* C15: the normalizer is idempotent: a second pass returns what the first
\* pass returned.
C15_Idempotent ==
    Len(converted) = 2 => converted[2] = converted[1]

RECURSIVE DollarSpans(_)
\* The contents of the $...$ spans of a text, each "$" paired with the next
\* one, left to right.
DollarSpans(s) ==
    LET i == NextDollar(s, 1)
        j == IF i = 0 THEN 0 ELSE NextDollar(s, i + 1)
    IN IF j = 0 THEN <<>>
       ELSE <<SubSeq(s, i + 1, j - 1)>>
              \o DollarSpans(SubSeq(s, j + 1, Len(s)))

RECURSIVE IsSubsequence(_, _)
\* The elements of a occur in b, in the same order.
IsSubsequence(a, b) ==
    IF a = <<>> THEN TRUE
    ELSE IF b = <<>> THEN FALSE
    ELSE IF Head(a) = Head(b) THEN IsSubsequence(Tail(a), Tail(b))
    ELSE IsSubsequence(a, Tail(b))

\* C16: every $...$ span of the input is a $...$ span of the output, with
\* the same content and in the same order, also when it lies between a "("
\* and its matching ")".
C16_DollarSpansKept ==
    Len(converted) >= 1 =>
        IsSubsequence(DollarSpans(page_text), DollarSpans(converted[1]))

(***************************************************************************)
(* Properties of create_chunks                                             *)
(***************************************************************************)
\* The sentence units of a chunk text: its spans without the periods.
UnitsOf(t) == SelectSeq(t, LAMBDA u : u # Period)

\* The units of chunk c that are units of chunk b as well.
SharedUnits(c, b) ==
    SelectSeq(UnitsOf(c.text),
              LAMBDA u : \E k \in 1..Len(b.text) : b.text[k] = u)

\* C17: the chunks returned carry chunk_index 0, 1, 2, ... in list order
\* across all pages, their page numbers never decrease, and a second call
\* on the same pages returns the same list.
C17_GlobalChunkIndex ==
    Len(chunks_data) >= 1 =>
        LET cs == chunks_data[1]
        IN /\ \A i \in 1..Len(cs) : cs[i].chunk_index = i - 1
           /\ \A i, j \in 1..Len(cs) : i < j => cs[i].page <= cs[j].page
           /\ Len(chunks_data) = 2 => chunks_data[2] = cs

\* Page 1 gave two chunks and page 2 a third, numbered 2; the call was
\* repeated.
C17_Witness ==
    /\ Len(chunks_data) = 2
    /\ Len(chunks_data[1]) = 3
    /\ chunks_data[1][2].page = 1
    /\ chunks_data[1][3].page = 2
    /\ chunks_data[1][3].chunk_index = 2

\* C18: the token_count of every chunk is at most chunk_size plus the token
\* count of one of its own units, and the units it shares with the chunk
\* before it on the same page have at most chunk_overlap tokens together.
C18_SizeAndOverlapBounds ==
    Len(chunks_data) >= 1 =>
        LET cs == chunks_data[1]
        IN /\ \A i \in 1..Len(cs) :
                 \E k \in 1..Len(UnitsOf(cs[i].text)) :
                    cs[i].token_count
                       <= chunk_size + UnitsOf(cs[i].text)[k].tokens
           /\ \A i \in 2..Len(cs) :
                 cs[i - 1].page = cs[i].page =>
                    count_tokens(SharedUnits(cs[i], cs[i - 1]))
                       <= chunk_overlap

\* A chunk larger than chunk_size (it holds a unit of 1100 tokens) that
\* starts with a unit kept from the chunk before it.
C18_Witness ==
    /\ Len(chunks_data) >= 1
    /\ \E i \in 2..Len(chunks_data[1]) :
          LET cs == chunks_data[1]
          IN /\ cs[i - 1].page = cs[i].page
             /\ cs[i].token_count > chunk_size
             /\ count_tokens(SharedUnits(cs[i], cs[i - 1])) > 0

\* C19: the token_count stored with a chunk is the token count of the
\* chunk's own text, its units joined with ". " and closed with a period.
C19_TokenCountOfOwnText ==
    Len(chunks_data) >= 1 =>
        \A i \in 1..Len(chunks_data[1]) :
            chunks_data[1][i].token_count
               = count_tokens(chunks_data[1][i].text)

\* C20: every unit of a chunk comes from the page recorded with the chunk,
\* and a page with no non-empty piece has no chunk.
C20_ChunkWithinPage ==
    Len(chunks_data) >= 1 =>
        LET cs == chunks_data[1]
        IN /\ \A i \in 1..Len(cs) :
                 /\ UnitsOf(cs[i].text) # <<>>
                 /\ \A k \in 1..Len(UnitsOf(cs[i].text)) :
                       /\ UnitsOf(cs[i].text)[k].page = cs[i].page
                       /\ UnitsOf(cs[i].text)[k].tokens > 0
           /\ \A p \in 1..Len(pdf_pages) :
                 (\A k \in 1..Len(pdf_pages[p]) : pdf_pages[p][k] = 0)
                    => \A i \in 1..Len(cs) : cs[i].page # p

\* The last chunk of page 1 ends with a unit that fits the overlap budget,
\* and page 2, which has a blank piece, gives a chunk.
C20_Witness ==
    /\ Len(chunks_data) >= 1
    /\ Len(pdf_pages) = 2
    /\ pdf_pages[1][Len(pdf_pages[1])] = 100
    /\ \E k \in 1..Len(pdf_pages[2]) : pdf_pages[2][k] = 0
    /\ \E i \in 2..Len(chunks_data[1]) :
          /\ chunks_data[1][i - 1].page = 1
          /\ chunks_data[1][i].page = 2

\* Prompt assembly on every stored history and chunk list.
InitPrompt ==
    /\ IngestInit
    /\ ThreadInit
    /\ SanitizeInit
    /\ RagNormInit
    /\ EmbedInit
    /\ TitleInit
    /\ GenInit
    /\ accepts = [validate |-> {}, stream |-> {}]
    /\ RetrieveInit
    /\ NormalizeInit
    /\ ChunkInit
    /\ message_history \in Histories
    /\ context_chunks \in ContextLists
    /\ llm_messages = <<>>

NextPrompt == SendPrompt

SpecPrompt == InitPrompt /\ [][NextPrompt]_vars

Min(a, b) == IF a <= b THEN a ELSE b

IsSuffix(s, t) == Len(s) <= Len(t) /\ SubSeq(t, Len(t) - Len(s) + 1, Len(t)) = s

Sent == llm_messages[1]

PriorMessages == SubSeq(message_history, 1, Len(message_history) - 1)

\* C21: the list sent to the backend is one system message, then the at most
\* 10 most recent messages that precede the user message just saved, in
\* creation order with roles from user/assistant/system, then one user
\* message that carries the current question; the message just saved is not
\* in the history section.
C21_HistoryWindow ==
    llm_messages # <<>> =>
        LET n == Min(10, Len(PriorMessages))
            first == Len(PriorMessages) - n
        IN  /\ Len(Sent) = n + 2
            /\ Sent[1].role = "system"
            /\ \A i \in 1..n :
                  /\ Sent[1 + i].content = PriorMessages[first + i].content
                  /\ Sent[1 + i].role = PriorMessages[first + i].role
                  /\ Sent[1 + i].role \in {"user", "assistant", "system"}
            /\ Sent[n + 2].role = "user"
            /\ IsSuffix(message_history[Len(message_history)].content,
                        Sent[n + 2].content)

C21_Witness ==
    /\ llm_messages # <<>>
    /\ Len(PriorMessages) = 12
    /\ Len(Sent) = 12
    /\ Sent[2].content = PriorMessages[3].content

IsInfix(s, t) ==
    \E k \in 0..(Len(t) - Len(s)) : SubSeq(t, k + 1, k + Len(s)) = s

Pieces(t) == {t[j] : j \in 1..Len(t)}

RECURSIVE LabelledBlocks(_)
LabelledBlocks(cs) ==
    IF cs = <<>> THEN <<>>
    ELSE <<"[Page ">> \o str(cs[1].page) \o <<"]", "\n">> \o cs[1].text
         \o (IF Len(cs) = 1 THEN <<>>
             ELSE <<"\n\n">> \o LabelledBlocks(Tail(cs)))

\* C22: with an empty chunk list the prompt sent for the turn contains the
\* guidance text saying that the document may still be processing; with a
\* non-empty list the final user message contains one [Page N] block per
\* chunk, in the given order, joined by blank lines.
C22_GuidanceOrBlocks ==
    llm_messages # <<>> =>
        /\ context_chunks = <<>> =>
              \E i \in 1..Len(Sent) :
                  "- The document is still being processed"
                      \in Pieces(Sent[i].content)
        /\ context_chunks # <<>> =>
              IsInfix(LabelledBlocks(context_chunks),
                      Sent[Len(Sent)].content)

\* The second half alone.
C22_BlocksWhenChunks ==
    (llm_messages # <<>> /\ context_chunks # <<>>) =>
        IsInfix(LabelledBlocks(context_chunks), Sent[Len(Sent)].content)

\* Title generation on every backend behaviour and reply.
InitTitle ==
    /\ IngestInit
    /\ ThreadInit
    /\ SanitizeInit
    /\ RagNormInit
    /\ EmbedInit
    /\ GenInit
    /\ accepts = [validate |-> {}, stream |-> {}]
    /\ RetrieveInit
    /\ NormalizeInit
    /\ ChunkInit
    /\ PromptInit
    /\ title_backend \in TitleBackends
    /\ title_result = <<>>

NextTitle == generate_thread_title

SpecTitle == InitTitle /\ [][NextTitle]_vars

\* The number of maximal runs of characters that are not white space.
WordCount(t) ==
    Cardinality({i \in 1..Len(t) :
                    /\ t[i] \notin {" ", "\n"}
                    /\ (i = 1 \/ t[i - 1] \in {" ", "\n"})})

QuoteOrPunctuation == {"\"", "'", ".", ",", "!", "?"}

\* The cleaned title is empty: the reply has no word, or one word made of
\* quotes and punctuation only.
CleansToEmpty(content) ==
    \/ WordCount(content) = 0
    \/ /\ WordCount(content) = 1
       /\ \A i \in 1..Len(content) :
             content[i] \in {" ", "\n"} \cup QuoteOrPunctuation

Title == title_result[1].title

\* C23: title generation never raises; the title it returns is not empty,
\* has at most 4 words and neither starts nor ends with a quote or
\* punctuation character; it is "New Chat" when all four parameter sets are
\* rejected, when the reply cannot be read, or when the cleaned title is
\* empty.
C23_TitleShape ==
    title_result # <<>> =>
        /\ ~title_result[1].raised
        /\ Title # <<>>
        /\ WordCount(Title) <= 4
        /\ Title[1] \notin QuoteOrPunctuation
        /\ Title[Len(Title)] \notin QuoteOrPunctuation
        /\ (\/ title_backend.first_accepted = 0
            \/ title_backend.content = <<"None">>
            \/ CleansToEmpty(title_backend.content))
              => Title = <<"N", "e", "w", " ", "C", "h", "a", "t">>

C23_Witness ==
    /\ title_result # <<>>
    /\ title_backend.first_accepted = 3
    /\ WordCount(title_backend.content) = 5
    /\ title_backend.content[1] \in QuoteOrPunctuation
    /\ WordCount(Title) = 4
    /\ Title[1] = "c"

\* embed_batch on n distinct texts with every batch size from 1.
InitEmbed ==
    /\ IngestInit
    /\ ThreadInit
    /\ SanitizeInit
    /\ RagNormInit
    /\ GenInit
    /\ accepts = [validate |-> {}, stream |-> {}]
    /\ RetrieveInit
    /\ NormalizeInit
    /\ ChunkInit
    /\ PromptInit
    /\ TitleInit
    /\ \E n \in 0..MaxTexts : embed_texts = [j \in 1..n |-> j]
    /\ batch_size \in 1..MaxBatch
    /\ embed = IdleEmbed

NextEmbed ==
    \/ EmbedCall
    \/ EmbedBatchOk
    \/ EmbedBatchFail
    \/ EmbedReturn

SpecEmbed == InitEmbed /\ [][NextEmbed]_vars

RECURSIVE Flatten(_)
Flatten(ss) == IF ss = <<>> THEN <<>> ELSE ss[1] \o Flatten(Tail(ss))

IsPrefix(s, t) == Len(s) <= Len(t) /\ SubSeq(t, 1, Len(s)) = s

\* What holds of the requests sent and of the value returned.
C24_Batches ==
    /\ \A r \in 1..Len(embed.requests) :
          /\ Len(embed.requests[r]) \in 1..batch_size
          /\ r < Len(embed.requests)
                => Len(embed.requests[r]) = batch_size
    /\ IsPrefix(Flatten(embed.requests), embed_texts)
    /\ embed.pc = "raised" => embed.result = <<>>
    /\ embed.pc = "returned" =>
          /\ Flatten(embed.requests) = embed_texts
          /\ embed.result =
                <<[j \in 1..Len(embed_texts) |->
                      [embedding_of |-> embed_texts[j]]]>>
    /\ embed_texts = <<>> =>
          /\ embed.requests = <<>>
          /\ embed.pc # "raised"
          /\ embed.pc = "returned" => embed.result = << <<>> >>

\* C24: embed_batch sends consecutive slices of at most batch_size texts in
\* input order; when a request fails it raises, delivers no vector, not even
\* those of the batches that succeeded, and sends nothing more; when all
\* succeed it returns the vectors in input order; on an empty input it sends
\* nothing and returns the empty list.
C24_EmbedBatch ==
    /\ []C24_Batches
    /\ [][embed.pc = "raised" => embed' = embed]_vars

C24_Witness ==
    /\ embed.pc = "raised"
    /\ Len(embed.requests) = 2
    /\ embed.embeddings # <<>>
    /\ embed.result = <<>>
    /\ Len(Flatten(embed.requests)) < Len(embed_texts)

\* C25: every call of generate_response that has ended, whatever its
\* outcome (completion, negotiation failure, failure in mid-stream,
\* persistence failure), has left exactly one ChatRun of its own; and no
\* operation changes or removes a ChatRun that exists.
C25_OneChatRunPerCall ==
    /\ [](turn.gen = "returned" => Len(ChatRunsOf(turn.n)) = 1)
    /\ [][IsPrefix(chat_runs, chat_runs')]_vars

\* The part that holds: ChatRun rows are only ever added.
C25_ChatRunsAppendOnly == [][IsPrefix(chat_runs, chat_runs')]_vars

\* C26: the events of a turn's stream are one start event first, then token
\* events, then one terminal event, done or error, never both, and nothing
\* after it.  A stream the client has abandoned stops where it was cut; a
\* stream the server has closed has its terminal event.
C26_EventOrder ==
    LET ev == turn.events
        n == Len(ev)
    IN  /\ n > 0 => ev[1].type = "start"
        /\ \A i \in 2..n : ev[i].type \in {"token", "done", "error"}
        /\ \A i \in 1..n : ev[i].type \in {"done", "error"} => i = n
        /\ turn.pc = "closed" =>
              /\ n >= 2
              /\ ev[n].type \in {"done", "error"}

C26_Witness ==
    /\ turn.pc = "closed"
    /\ turn.failure = "stream"
    /\ Len(turn.events) = 4
    /\ turn.events[2].type = "token"
    /\ turn.events[4].type = "done"

\* The runs queued for document d.
RunsFor(d) == {r \in Runs : run[r].doc = d}

\* A step of an ingestion task for document d.
RunStep(d) ==
    \E r \in Runs :
        /\ run[r].doc = d
        /\ run[r].pc \notin {"idle", "done"}
        /\ run'[r] # run[r]

\* The rows of d change only in a step of a task for d, or when d itself is
\* uploaded or deleted.
RowsOwned ==
    \A d \in Docs :
        (\/ documents'[d] # documents[d]
         \/ {c \in chunks' : c.document_id = d}
              # {c \in chunks : c.document_id = d})
          => \/ RunStep(d)
             \/ documents[d] = NoRow /\ documents'[d] = Document
             \/ documents[d] # NoRow /\ documents'[d] = NoRow

\* A stored document with one finished run of its own has the status that
\* run committed last, pages set exactly when READY or the zero-chunk ERROR
\* was written, and the chunk rows that run stored: nothing of it depends on
\* what the runs of other documents did.
AsIfAlone ==
    \A d \in Docs : \A r \in Runs :
        (Exists(d) /\ RunsFor(d) = {r} /\ run[r].pc = "done") =>
            /\ documents[d].status =
                  (IF run[r].wrote = "none" THEN "UPLOADED"
                   ELSE run[r].wrote)
            /\ {c \in chunks : c.document_id = d}
                  = {[document_id |-> d, run |-> r, chunk_index |-> i,
                      embedding |-> "vector"] :
                         i \in 0..(run[r].nchunks - 1)}
            /\ run[r].result = "true" <=> documents[d].status = "READY"
            /\ documents[d].status = "READY" => documents[d].pages >= 1
            /\ (documents[d].pages # -1 /\ documents[d].status # "READY")
                  => /\ documents[d].status = "ERROR"
                     /\ run[r].failed = "stage"

\* C27: ingest runs on two different documents, interleaved in any order,
\* do not affect each other: a run for one document writes no Document or
\* Chunk row of the other, and the status, page count and chunk rows a
\* document has after its run are those its own run produced.
C27_RunsIndependent ==
    /\ []AsIfAlone
    /\ [][RowsOwned]_vars

C27_Witness ==
    /\ run[1].pc = "done" /\ run[2].pc = "done"
    /\ run[1].doc = "docA" /\ run[2].doc = "docB"
    /\ documents["docA"].status = "ERROR"
    /\ documents["docB"] = [status |-> "READY", pages |-> 1]
    /\ {c \in chunks : c.document_id = "docB"} # {}
    /\ {c \in chunks : c.document_id = "docA"} = {}

\* The order in which a task moves through its steps; it may return from
\* any of them.
StageOrder ==
    {<<"idle", "queued">>, <<"queued", "download">>,
     <<"download", "extract">>, <<"extract", "chunk">>,
     <<"chunk", "embed">>, <<"embed", "persist">>}
    \cup {<<p, "done">> : p \in {"queued", "download", "extract", "chunk",
                                 "embed", "persist"}}

\* The chunk rows task r stores in a step.
NewRows(r) == {c \in chunks' : c.run = r} \ chunks

SequentialStep ==
    \A r \in Runs :
        /\ run'[r].pc # run[r].pc => <<run[r].pc, run'[r].pc>> \in StageOrder
        /\ run[r].pc \in {"download", "extract", "chunk", "embed", "persist"}
              => run[r].wrote = "PROCESSING"
        /\ (run[r].pc = "embed" /\ run'[r] # run[r]) =>
              /\ run[r].total_pages >= 1
              /\ run[r].nchunks >= 1
        /\ NewRows(r) # {} =>
              /\ run[r].pc = "persist"
              /\ run[r].nchunks >= 1
              /\ run[r].nemb = run[r].nchunks
              /\ Cardinality(NewRows(r)) = run[r].nchunks
              /\ run'[r].result = "true"

\* C28: a task commits PROCESSING, downloads, extracts, chunks, embeds and
\* persists in that order, each step only after the one before it
\* succeeded: the embedding call is made only with extracted pages and at
\* least one chunk, and chunk rows are stored only when the embedding step
\* returned as many vectors as there are chunks.
C28_StagesSequential == [][SequentialStep]_vars

C28_Witness ==
    /\ run[1].pc = "done"
    /\ run[1].result = "false"
    /\ run[1].wrote = "ERROR"
    /\ run[1].failed = "stage"
    /\ run[2].pc = "done"
    /\ run[2].result = "true"
    /\ run[2].nchunks = 2
    /\ Cardinality({c \in chunks : c.run = 2}) = 2
    /\ {c \in chunks : c.run = 1} = {}

\* One step of ingestion task r: the call it is waiting for returns or
\* fails.
IngestStep(r) ==
    \/ IngestNotFound(r)
    \/ IngestStart(r)
    \/ IngestDownload(r)
    \/ IngestExtract(r)
    \/ IngestChunk(r)
    \/ IngestEmbed(r)
    \/ IngestPersist(r)

\* The event loop runs every queued task, and every awaited call comes
\* back.
SpecFair == Init /\ [][Next]_vars /\ \A r \in Runs : WF_vars(IngestStep(r))

\* A task for d is between its PROCESSING commit and its return.
InProgress(d) ==
    \E r \in Runs :
        /\ run[r].doc = d
        /\ run[r].pc \in {"download", "extract", "chunk", "embed", "persist"}

\* Every queued task returns.
C29_Terminates == \A r \in Runs : (run[r].pc = "queued") ~> (run[r].pc = "done")

\* C29: under fairness every ingestion task ends, and a document is not
\* left PROCESSING once the task that set it has ended, whatever the
\* outcomes of the calls, failing status writes included.
C29_NeverLeftProcessing ==
    /\ \A r \in Runs : (run[r].pc = "queued") ~> (run[r].pc = "done")
    /\ [](\A d \in Docs : documents[d].status = "PROCESSING" => InProgress(d))

\* The normalizer of RAGService on every text.
InitRagNormalize ==
    /\ IngestInit
    /\ ThreadInit
    /\ SanitizeInit
    /\ GenInit
    /\ accepts = [validate |-> {}, stream |-> {}]
    /\ RetrieveInit
    /\ ChunkInit
    /\ PromptInit
    /\ TitleInit
    /\ EmbedInit
    /\ page_text \in Texts
    /\ converted = <<>>
    /\ rag_converted = <<>>

NextRagNormalize == RagConvert

SpecRagNormalize == InitRagNormalize /\ [][NextRagNormalize]_vars

\* C30: RAGService.convert_math_to_latex and
\* IngestionService.convert_math_to_latex are the same function: on every
\* text they return the same text.
C30_SameNormalizer ==
    rag_converted # <<>> =>
        rag_converted[1] = ingestion_convert_math_to_latex(page_text)

\* A text that both rewrite, with a $...$ span both leave alone.
C30_Witness ==
    /\ rag_converted # <<>>
    /\ page_text = <<"$", "(", "$", "(", "_", ")">>
    /\ rag_converted[1] = <<"$", "(", "$", "$", "_", "$">>
    /\ ingestion_convert_math_to_latex(page_text) = rag_converted[1]

\* The pre-flight loop and the streaming loop against one backend.
SameNegotiation(acc) ==
    /\ ValidateLoop(acc, 1) = NegotiateLoop(acc, 1)
    /\ Success(ValidateLoop(acc, 1), acc) <=> FirstAccepted(acc) # 0

\* C31: against a backend whose acceptance depends only on which of
\* max_tokens / max_completion_tokens / temperature are present,
\* validate_llm_connection and generate_response send the same parameter
\* sets in the same order and stop at the same one, so the pre-flight
\* succeeds iff the negotiation obtains a stream.
C31_SameNegotiation ==
    /\ SameNegotiation(accepts.validate)
    /\ (accepts.stream = accepts.validate /\ turn.stream_requests # <<>>) =>
          /\ turn.stream_requests = turn.requests
          /\ turn.failure # "negotiation"

C31_Witness ==
    /\ accepts.stream = accepts.validate
    /\ turn.pc = "streaming"
    /\ Len(turn.stream_requests) = 3
    /\ turn.stream_requests = turn.requests
    /\ turn.requests[3] = {"max_tokens", "temperature"}

\* The normalizer on short texts over the full alphabet of the scan.
InitScan ==
    /\ IngestInit
    /\ ThreadInit
    /\ SanitizeInit
    /\ GenInit
    /\ accepts = [validate |-> {}, stream |-> {}]
    /\ RetrieveInit
    /\ ChunkInit
    /\ PromptInit
    /\ TitleInit
    /\ EmbedInit
    /\ RagNormInit
    /\ page_text \in ScanTexts
    /\ converted = <<>>

NextScan == ConvertPass

SpecScan == InitScan /\ [][NextScan]_vars

\* The number of positions of s in a..b that hold c.
Count(s, a, b, c) == Cardinality({k \in a..b : s[k] = c})

\* The ")" matching the "(" at i by depth counting: the first position
\* after i up to which as many ")" as "(" have been read; 0 if there is none.
Matching(s, i) ==
    LET closes == {j \in (i + 1)..Len(s) :
                      /\ s[j] = ")"
                      /\ Count(s, i, j, "(") = Count(s, i, j, ")")}
    IN  IF closes = {} THEN 0
        ELSE CHOOSE j \in closes : \A k \in closes : j <= k

MathInside(s, i, j) ==
    \E k \in (i + 1)..(j - 1) : s[k] \in {"\\", "^", "_", "{", "}"}

\* The end of the span a "$" at i opens: the next "$", or the end of the
\* text when there is none.
SpanEnd(s, i) ==
    LET ds == {j \in (i + 1)..Len(s) : s[j] = "$"}
    IN  IF ds = {} THEN Len(s) ELSE CHOOSE j \in ds : \A k \in ds : j <= k

\* What the scan is to write from position i on.
RECURSIVE Scanned(_, _)
Scanned(s, i) ==
    IF i > Len(s) THEN <<>>
    ELSE IF s[i] = "$"
    THEN SubSeq(s, i, SpanEnd(s, i)) \o Scanned(s, SpanEnd(s, i) + 1)
    ELSE IF s[i] = "(" /\ Matching(s, i) # 0
                       /\ MathInside(s, i, Matching(s, i))
    THEN <<"$">> \o SubSeq(s, i + 1, Matching(s, i) - 1) \o <<"$">>
           \o Scanned(s, Matching(s, i) + 1)
    ELSE <<s[i]>> \o Scanned(s, i + 1)

\* The text the scan of a pass receives: the input of the pass after the
\* two substitutions of the escaped delimiters.
ScanInput(p) ==
    LET input == IF p = 1 THEN page_text ELSE converted[p - 1]
    IN  SubDelimiters(SubDelimiters(input, "[", "]", <<"$", "$">>),
                      "(", ")", <<"$">>)

Suffix(us, n) == SubSeq(us, Len(us) - n + 1, Len(us))

SuffixTokens(us, n) ==
    LET RECURSIVE Sum(_)
        Sum(k) == IF k = 0 THEN 0 ELSE us[Len(us) - k + 1].tokens + Sum(k - 1)
    IN  Sum(n)

\* The longest suffix of us that fits the overlap budget.
Seed(us) ==
    LET fits == {n \in 0..Len(us) : SuffixTokens(us, n) <= 200}
    IN  Suffix(us, CHOOSE n \in fits : \A m \in fits : m <= n)

\* C33: a chunk that follows another on the same page starts with the
\* longest suffix of that chunk's units, in their order, whose tokens
\* together are within the overlap budget; the unit that closed the chunk
\* before comes right after this seed, and it and the units behind it are
\* not units of the chunk before.
C33_OverlapSeed ==
    Len(chunks_data) >= 1 =>
        LET cs == chunks_data[1]
        IN  \A i \in 2..Len(cs) :
               cs[i - 1].page = cs[i].page =>
                  LET prev == UnitsOf(cs[i - 1].text)
                      next == UnitsOf(cs[i].text)
                      seed == Seed(prev)
                  IN  /\ Len(next) > Len(seed)
                      /\ SubSeq(next, 1, Len(seed)) = seed
                      /\ \A k \in (Len(seed) + 1)..Len(next) :
                            next[k].pos > prev[Len(prev)].pos

\* A chunk seeded with two units of the chunk before it, whose third unit
\* from the end did not fit.
C33_Witness ==
    /\ Len(chunks_data) >= 1
    /\ \E i \in 2..Len(chunks_data[1]) :
          LET prev == UnitsOf(chunks_data[1][i - 1].text)
              next == UnitsOf(chunks_data[1][i].text)
          IN  /\ chunks_data[1][i - 1].page = chunks_data[1][i].page
              /\ Len(prev) = 3
              /\ Len(next) = 3
              /\ next[1] = prev[2]
              /\ next[2] = prev[3]

\* sanitize_text on every short text.
InitSanitize ==
    /\ IngestInit
    /\ ThreadInit
    /\ GenInit
    /\ accepts = [validate |-> {}, stream |-> {}]
    /\ RetrieveInit
    /\ NormalizeInit
    /\ ChunkInit
    /\ PromptInit
    /\ TitleInit
    /\ EmbedInit
    /\ RagNormInit
    /\ raw_text \in RawTexts
    /\ sanitized = <<>>

NextSanitize == SanitizePage

SpecSanitize == InitSanitize /\ [][NextSanitize]_vars

\* The control characters: 0x00-0x1F and 0x7F-0x9F.
IsControl(c) == c \in 0..31 \/ c \in 127..159

\* C34: sanitization removes every control character except tab, newline
\* and carriage return, and leaves all other characters as they are and in
\* their order.
C34_ControlsRemoved ==
    sanitized # <<>> =>
        sanitized[1] =
            SelectSeq(raw_text,
                      LAMBDA c : ~IsControl(c) \/ c \in {9, 10, 13})

\* The part that holds: the characters below 0x20 other than tab, newline
\* and carriage return are removed, everything else is kept in order.
C34_LowControlsRemoved ==
    sanitized # <<>> =>
        sanitized[1] =
            SelectSeq(raw_text, LAMBDA c : c \notin 0..31 \/ c \in {9, 10, 13})

\* What a step of task r may write when the task does not end with True.
FailingStep(r) ==
    (run'[r] # run[r] /\ run[r].pc \notin {"idle", "done"}
       /\ run'[r].result # "true") =>
        /\ chunks' = chunks
        /\ \A d \in Docs :
              /\ d # run[r].doc => documents'[d] = documents[d]
              /\ documents'[d].pages # documents[d].pages =>
                    /\ run[r].pc = "chunk"
                    /\ run'[r].pc = "done"
                    /\ documents'[d] =
                          [status |-> "ERROR", pages |-> run[r].total_pages]
        /\ (run[r].pc = "queued" /\ ~Exists(run[r].doc)) =>
              /\ run'[r].pc = "done"
              /\ run'[r].result = "false"
              /\ documents' = documents

\* C35: an ingest run that returns False stores no Chunk row and changes no
\* Document field but the status, except that the zero-chunk case records
\* the page count as well; a run for a document that does not exist returns
\* False without any write.
C35_FalseRunWrites ==
    /\ [](\A c \in chunks : run[c.run].result = "true")
    /\ [][\A r \in Runs : FailingStep(r)]_vars

C35_Witness ==
    /\ run[1].pc = "done" /\ run[1].result = "false"
    /\ run[1].doc = "docA"
    /\ documents["docA"] = [status |-> "ERROR", pages |-> 1]
    /\ run[2].pc = "done" /\ run[2].result = "false"
    /\ run[2].failed = "notfound"
    /\ chunks = {}

\* C36: for a document with exactly one ingest run, what a retrieval can
\* see at any moment is either no chunk of the document or all the chunks
\* the run produced, never some of them only.
C36_NoneOrAll ==
    \A d \in Docs : \A r \in Runs :
        RunsFor(d) = {r} =>
            \/ Visible(d) = {}
            \/ /\ run[r].result = "true"
               /\ Visible(d) =
                     {[document_id |-> d, run |-> r, chunk_index |-> i,
                       embedding |-> "vector"] :
                          i \in 0..(run[r].nchunks - 1)}

\* One document has all its rows visible while the only run of the other
\* document is about to persist and none of its rows is visible.
C36_Witness ==
    /\ run[1].doc = "docA" /\ run[2].doc = "docB"
    /\ run[1].pc = "done"
    /\ Cardinality(Visible("docA")) = 2
    /\ run[2].pc = "persist"
    /\ run[2].nchunks = 2
    /\ Visible("docB") = {}

\* Concurrent requests on a thread that already holds some messages.
InitThread ==
    /\ IngestInit
    /\ GenInit
    /\ accepts = [validate |-> {}, stream |-> {}]
    /\ RetrieveInit
    /\ NormalizeInit
    /\ ChunkInit
    /\ PromptInit
    /\ TitleInit
    /\ EmbedInit
    /\ RagNormInit
    /\ SanitizeInit
    /\ \E n \in 0..MaxStored :
          thread_messages =
              [k \in 1..n |-> StoredMessage(RoleCycle[((k + 2) % 3) + 1],
                                            Repeat("m", k))]
    /\ req = [i \in Requests |-> IdleRequest]

NextThread ==
    \/ \E i \in Requests : SaveUserMessage(i)
    \/ \E i \in Requests : ReadHistory(i)
    \/ \E i \in Requests : SendMessages(i)

SpecThread == InitThread /\ [][NextThread]_vars

\* The positions of a sent list whose content carries the question q.
Carrying(sent, q) == {k \in 1..Len(sent) : IsSuffix(q, sent[k].content)}

\* C37: the list a turn sends holds the turn's question exactly once, as
\* the final user message, and not in the history section, also when another
\* turn saved its user message between this turn's save and its read of the
\* history.
C37_QuestionOnce ==
    \A i \in 1..MaxRequests :
        req[i].pc = "sent" =>
            /\ req[i].sent[Len(req[i].sent)].role = "user"
            /\ Carrying(req[i].sent, <<"q">> \o [k \in 1..i |-> "?"])
                  = {Len(req[i].sent)}

\* Without a save of another turn in between, the question is sent once.
C37_QuestionOnceUnraced ==
    \A i \in 1..MaxRequests :
        (/\ req[i].pc = "sent"
         /\ req[i].history[Len(req[i].history)].content
               = <<"q">> \o [k \in 1..i |-> "?"])
          => Carrying(req[i].sent, <<"q">> \o [k \in 1..i |-> "?"])
                = {Len(req[i].sent)}

\* The USER messages stored by turn n.
UserOf(n) == SelectSeq(messages, LAMBDA m : m.role = "USER" /\ m.turn = n)

\* The turn ended in a failure: HTTP 500 from the validation, or an error
\* inside generate_response.
TurnFailed == turn.pc = "http500" \/ turn.failure # "none"

\* C38: the USER message of a turn is committed before title generation,
\* retrieval, validation and generation begin, and stays stored however the
\* turn ends; after a failed validation or a failed generation the thread
\* keeps the USER message with no ASSISTANT message after it.
C38_UserMessageKept ==
    /\ [](turn.n >= 1 =>
            /\ Len(UserOf(turn.n)) = 1
            /\ UserOf(turn.n)[1].content = Query
            /\ turn.pc = "committed" =>
                  /\ messages[Len(messages)] = UserOf(turn.n)[1]
                  /\ turn.chunks = <<>>
                  /\ turn.requests = <<>>
                  /\ turn.stream_requests = <<>>
                  /\ turn.events = <<>>
                  /\ turn.yields = <<>>
            /\ TurnFailed =>
                  /\ AssistantOf(turn.n) = <<>>
                  /\ messages[Len(messages)] = UserOf(turn.n)[1])
    /\ [][IsPrefix(messages, messages')]_vars

\* A turn whose generation failed was followed by another turn that failed
\* the same way: the thread holds two USER messages in a row and no
\* ASSISTANT message.
C38_Witness ==
    /\ turn.n = 2
    /\ turn.failure = "stream"
    /\ Len(messages) = 2
    /\ messages[1].role = "USER" /\ messages[1].turn = 1
    /\ messages[2].role = "USER" /\ messages[2].turn = 2

\* The ASSISTANT messages of the thread.
Assistants == SelectSeq(messages, LAMBDA m : m.role = "ASSISTANT")

\* The commit of the ASSISTANT message and the ChatRun fails in this step.
CommitFails ==
    /\ turn.pc = "ended"
    /\ turn'.failure = "persist"

\* C39: when the commit of the ASSISTANT message and the ChatRun fails
\* after the stream ended, neither row is stored, generate_response yields
\* one error marker after the last token and returns; the thread always
\* holds as many ChatRuns as ASSISTANT messages.
C39_CommitFailure ==
    /\ [](Len(chat_runs) = Len(Assistants))
    /\ [](turn.failure = "persist" =>
            /\ AssistantOf(turn.n) = <<>>
            /\ ChatRunsOf(turn.n) = <<>>
            /\ turn.gen = "returned"
            /\ turn.yields =
                  Append(StreamPrefix(Len(turn.yields) - 1), ErrorMarker))
    /\ [][CommitFails =>
            /\ messages' = messages
            /\ chat_runs' = chat_runs
            /\ turn'.yields = Append(turn.yields, ErrorMarker)
            /\ turn'.gen = "returned"]_vars

\* Both tokens were streamed, the commit failed, and the response was
\* closed after the error marker; an earlier turn had stored its answer.
C39_Witness ==
    /\ turn.n = 2
    /\ turn.failure = "persist"
    /\ turn.pc = "closed"
    /\ Len(turn.yields) = MaxTokens + 1
    /\ turn.yields[MaxTokens + 1] = ErrorMarker
    /\ Len(Assistants) = 1
    /\ Len(chat_runs) = 1
====
